---- MODULE Spec2Model ----
(***************************************************************************)
(* A model of the tweet-post repository: the TwitterTool operations        *)
(* (src/twitter_tool.py), the HTTP routes in front of them (src/routes.py) *)
(* and PostGenerator.load_tweets (src/post_generator.py).                   *)
(*                                                                         *)
(* Ten specifications share the variables:                                 *)
(*   Spec          save_user_info, get_user_info and their routes          *)
(*   SpecGenerate  generate_post and /generate-post on stored posts        *)
(*   SpecScrape    scrape_with_playwright, scrape_profile, /scrape-profile *)
(*   SpecDedup     _deduplicate_tweets as a pure function                  *)
(*   SpecParse     parse_json_from_response as a pure function             *)
(*   SpecEstimate  estimate_engagement as a pure function                  *)
(*   SpecRace      two requests in the event loop of the server            *)
(*   SpecStore     sequences of /scrape-profile and /save-user-info        *)
(*   SpecInvoke    the invocations of the model by analyze_tweets and      *)
(*                 generate_post                                           *)
(*   SpecKey       /scrape-profile followed by /generate-post, per key     *)
(*                                                                         *)
(* Representation notes.                                                   *)
(*  - A text is a sequence of tokens; each token is the exact substring it *)
(*    stands for, so the text is the concatenation of its tokens. The one  *)
(*    exception is FENCE, which stands for three backquotes (a string of   *)
(*    this notation cannot hold a backquote).                              *)
(*  - A parsed JSON value is kept as its token sequence without            *)
(*    insignificant whitespace.                                            *)
(*  - A post text is a sequence of one-character strings.                  *)
(*  - A profile file holds, for every key, the JSON text of its value.     *)
(*  - engagement_score is kept in half units (twice the Python value), so  *)
(*    that the 0.5 * replies term stays an integer.                        *)
(***************************************************************************)
EXTENDS Integers, Sequences, FiniteSets, TLC

VARIABLES
    user_info_files,   \* user id  -> NoFile | Corrupt | profile dict    ({user_id}_info.json)
    tweets_files,      \* username -> NoFile | Corrupt | Unreadable | list of posts
                       \*                                          ({username}_tweets.json)
    analysis_files,    \* username -> NoFile | Corrupt | analysis dict   ({username}_analysis.json)
    last_saved,        \* history: user id -> for every key a successful save_user_info has
                       \* saved, the value given by the latest such save that held the key
    op,                \* the public operation that returned last, with its arguments
    result,            \* what that operation returned
    http,              \* what the route that called it answered
    scrape,            \* SpecScrape: the scrape in progress (where it is, its arguments, the
                       \* posts collected so far)
    visits,            \* SpecScrape history: the sources the scrape has started, how many
                       \* pages it has loaded, whether the latest load raised, and the
                       \* sources whose every attempt raised
    parse_in,          \* SpecParse: the text handed to parse_json_from_response
    parse_out,         \* SpecParse: what it returned
    dedup_in,          \* SpecDedup: the list handed to _deduplicate_tweets
    dedup_out,         \* SpecDedup: whether it has run, and the list it returned
    requests,          \* SpecRace: the two requests in the event loop, each with where its
                       \* handler is and what it was given
    last_scraped       \* SpecStore history: username -> the list the latest successful
                       \* scrape_profile got from scrape_with_playwright

vars == <<user_info_files, tweets_files, analysis_files, last_saved, op, result, http,
          scrape, visits, parse_in, parse_out, dedup_in, dedup_out, requests, last_scraped>>

\* No request is in the service; no scrape has completed.
NoRequests == <<>>
NoneScraped == <<>>

Min(a, b) == IF a <= b THEN a ELSE b

(***************************************************************************)
(* Tokens of a model response.                                             *)
(***************************************************************************)
FENCE == "<fence>"
TAG == "json"
NL == "\n"
SP == " "
LBRACE == "{"
RBRACE == "}"
LBRACK == "["
RBRACK == "]"
COMMA == ","
PROSE == "x"

\* "key": tokens (a member's name with its colon), each with the name it stands for.
KeyName ==
    ("\"k\":" :> "k") @@ ("\"j\":" :> "j") @@
    ("\"post\":" :> "post") @@ ("\"hashtags\":" :> "hashtags") @@
    ("\"error\":" :> "error") @@
    ("\"content_patterns\":" :> "content_patterns") @@
    ("\"style_elements\":" :> "style_elements") @@
    ("\"optimal_format\":" :> "optimal_format") @@
    ("\"recommendations\":" :> "recommendations") @@
    ("\"best_time\":" :> "best_time") @@ ("\"viral_elements\":" :> "viral_elements") @@
    ("\"engagement_prediction\":" :> "engagement_prediction")
KeyTokens == DOMAIN KeyName
\* Scalar tokens: numbers and strings.
NumberTokens == {"1", "2"}
StringTokens ==
    {"\"s\"", "\"\"", "\"JSON parsing error\"", "\"JSON parsing error: ...\"",
     "\"questions\"", "\"one idea per post\"",
     "\"**Ship** it\"", "\"Ship it\"", "\"1/2 a\"", "\"2/2 b\"",
     "\"#AI\"", "\"AI\"", "\"ai\"", "\"#\"", "\"ai_tools\"", "\"aitools\"",
     "\"high\"", "\"low\"", "\"medium\"", "\"High\"", "\"viral\"",
     "\"Could not generate post.\""}
ScalarTokens == NumberTokens \cup StringTokens
\* JSON's insignificant whitespace.
Whitespace == {SP, NL}

(***************************************************************************)
(* json.loads over tokens: the value's tokens, or a failure                 *)
(* (json.JSONDecodeError).                                                  *)
(***************************************************************************)
StripWs(ts) == SelectSeq(ts, LAMBDA t : t \notin Whitespace)

RECURSIVE EndOfValue(_, _)
RECURSIVE EndOfMembers(_, _, _)
RECURSIVE EndOfElements(_, _, _)

\* The index just past the JSON value that starts at s[i]; 0 when none does.
EndOfValue(s, i) ==
    IF i > Len(s) THEN 0
    ELSE IF s[i] \in ScalarTokens THEN i + 1
    ELSE IF s[i] = LBRACE THEN EndOfMembers(s, i + 1, TRUE)
    ELSE IF s[i] = LBRACK THEN EndOfElements(s, i + 1, TRUE)
    ELSE 0

\* Inside an object, at s[i]: the index just past its closing brace; 0 when malformed.
EndOfMembers(s, i, first) ==
    IF i > Len(s) THEN 0
    ELSE IF first /\ s[i] = RBRACE THEN i + 1
    ELSE IF s[i] \in KeyTokens
         THEN LET e == EndOfValue(s, i + 1)
              IN  IF e = 0 \/ e > Len(s) THEN 0
                  ELSE IF s[e] = RBRACE THEN e + 1
                  ELSE IF s[e] = COMMA THEN EndOfMembers(s, e + 1, FALSE)
                  ELSE 0
    ELSE 0

\* Inside an array, at s[i]: the index just past its closing bracket; 0 when malformed.
EndOfElements(s, i, first) ==
    IF i > Len(s) THEN 0
    ELSE IF first /\ s[i] = RBRACK THEN i + 1
    ELSE LET e == EndOfValue(s, i)
         IN  IF e = 0 \/ e > Len(s) THEN 0
             ELSE IF s[e] = RBRACK THEN e + 1
             ELSE IF s[e] = COMMA THEN EndOfElements(s, e + 1, FALSE)
             ELSE 0

json_loads(ts) ==
    LET s == StripWs(ts)
    IN  IF s # <<>> /\ EndOfValue(s, 1) = Len(s) + 1
        THEN [ok |-> TRUE, value |-> s]
        ELSE [ok |-> FALSE, value |-> <<>>]

(***************************************************************************)
(* parse_json_from_response                                                *)
(***************************************************************************)
\* {"post": "JSON parsing error", "hashtags": []}
FallbackObject ==
    <<LBRACE, "\"post\":", "\"JSON parsing error\"", COMMA, "\"hashtags\":", LBRACK, RBRACK, RBRACE>>
\* {"error": "JSON parsing error: ..."}
ErrorObject == <<LBRACE, "\"error\":", "\"JSON parsing error: ...\"", RBRACE>>

\* re.search(r'FENCE(?:json)?\n([\s\S]*?)\nFENCE', text): where the group starts when a
\* fence opens at i (the fence, an optional json tag, a newline); 0 when none opens.
GroupStart(ts, i) ==
    IF ts[i] # FENCE THEN 0
    ELSE IF i + 1 <= Len(ts) /\ ts[i + 1] = NL THEN i + 2
    ELSE IF i + 2 <= Len(ts) /\ ts[i + 1] = TAG /\ ts[i + 2] = NL THEN i + 3
    ELSE 0

\* The positions of a newline followed by a fence, at or after `from`.
Closings(ts, from) ==
    {k \in from..(Len(ts) - 1) : ts[k] = NL /\ ts[k + 1] = FENCE}

SetMin(S) == CHOOSE x \in S : \A y \in S : x <= y
SetMax(S) == CHOOSE x \in S : \A y \in S : x >= y

\* A greedy group, ([\s\S]*), would run to the last closing.
CodeBlockGroupGreedy(ts, i) ==
    SubSeq(ts, GroupStart(ts, i), SetMax(Closings(ts, GroupStart(ts, i))) - 1)

\* The lazy group ([\s\S]*?) of a match at i ends at the first closing at or after
\* the group's start.
CodeBlockGroup(ts, i) ==
    SubSeq(ts, GroupStart(ts, i), SetMin(Closings(ts, GroupStart(ts, i))) - 1)

\* The leftmost position where the code-block pattern matches; 0 when it matches nowhere.
code_block_match(ts) ==
    LET starts == {i \in 1..Len(ts) :
                     GroupStart(ts, i) # 0 /\ Closings(ts, GroupStart(ts, i)) # {}}
    IN  IF starts = {} THEN 0 ELSE SetMin(starts)

\* re.search(r'(\{[\s\S]*\}|\[[\s\S]*\])', text): the leftmost opening brace (bracket)
\* that has a closing brace (bracket) after it, greedily up to the last one.
Closers(ts, i) ==
    {j \in (i + 1)..Len(ts) :
        \/ ts[i] = LBRACE /\ ts[j] = RBRACE
        \/ ts[i] = LBRACK /\ ts[j] = RBRACK}

json_pattern(ts) ==
    LET starts == {i \in 1..Len(ts) : Closers(ts, i) # {}}
    IN  IF starts = {} THEN <<>>
        ELSE LET i == SetMin(starts) IN SubSeq(ts, i, SetMax(Closers(ts, i)))

\* json.loads of a regex group inside the outer try: a failure is caught by the outer
\* except and becomes the error object.
LoadsOrError(group) ==
    IF json_loads(group).ok THEN json_loads(group).value ELSE ErrorObject

parse_json_from_response(ts) ==
    IF json_loads(ts).ok THEN json_loads(ts).value
    ELSE IF code_block_match(ts) # 0
         THEN LoadsOrError(CodeBlockGroup(ts, code_block_match(ts)))
    ELSE IF json_pattern(ts) # <<>>
         THEN LoadsOrError(json_pattern(ts))
    ELSE FallbackObject

(***************************************************************************)
(* _deduplicate_tweets                                                     *)
(***************************************************************************)
\* The characters post texts are made of, and str.lower() on them.
Chars == {" ", "a", "A", "b", "B"}
Lower == [c \in Chars |->
             CASE c = "A" -> "a"
               [] c = "B" -> "b"
               [] OTHER -> c]

\* str.strip(): leading and trailing whitespace removed.
RECURSIVE LStrip(_)
LStrip(t) == IF t # <<>> /\ t[1] = " " THEN LStrip(Tail(t)) ELSE t
RECURSIVE RStrip(_)
RStrip(t) == IF t # <<>> /\ t[Len(t)] = " " THEN RStrip(SubSeq(t, 1, Len(t) - 1)) ELSE t
strip(t) == RStrip(LStrip(t))

lower(t) == [i \in 1..Len(t) |-> Lower[t[i]]]

\* tweet.get("text", "")
TextOf(tweet) == IF "text" \in DOMAIN tweet THEN tweet.text ELSE <<>>

\* tweet.get("text", "").strip().lower()
NormalizedText(tweet) == lower(strip(TextOf(tweet)))

\* The loop of _deduplicate_tweets from tweets[i] on, with its two accumulators.
RECURSIVE DedupLoop(_, _, _, _)
DedupLoop(tweets, i, seen_texts, unique_tweets) ==
    IF i > Len(tweets) THEN unique_tweets
    ELSE LET text == NormalizedText(tweets[i])
         IN  IF text # <<>> /\ text \notin seen_texts
             THEN DedupLoop(tweets, i + 1, seen_texts \cup {text},
                            Append(unique_tweets, tweets[i]))
             ELSE DedupLoop(tweets, i + 1, seen_texts, unique_tweets)

\* The same loop comparing the texts as they stand, without strip() and lower().
RECURSIVE DedupLoopRaw(_, _, _, _)
DedupLoopRaw(tweets, i, seen_texts, unique_tweets) ==
    IF i > Len(tweets) THEN unique_tweets
    ELSE LET text == TextOf(tweets[i])
         IN  IF text # <<>> /\ text \notin seen_texts
             THEN DedupLoopRaw(tweets, i + 1, seen_texts \cup {text},
                               Append(unique_tweets, tweets[i]))
             ELSE DedupLoopRaw(tweets, i + 1, seen_texts, unique_tweets)

deduplicate_by_raw_text(tweets) == DedupLoopRaw(tweets, 1, {}, <<>>)

deduplicate_tweets(tweets) == DedupLoop(tweets, 1, {}, <<>>)

(***************************************************************************)
(* Files. A file is absent, holds text that is not JSON (a write that      *)
(* failed midway leaves the truncated file behind), or holds a JSON        *)
(* document. A JSON document of string keys and JSON values reads back as  *)
(* the value that was written, so the content is kept as that value.       *)
(***************************************************************************)
NoFile == [kind |-> "absent", content |-> <<>>]
Corrupt == [kind |-> "corrupt", content |-> <<>>]
\* A file that cannot be opened for reading, or whose bytes are no UTF-8 text (a write
\* cut short inside a character): open() or the decoding raises an exception that is
\* neither FileNotFoundError nor json.JSONDecodeError.
Unreadable == [kind |-> "unreadable", content |-> <<>>]
JsonFile(value) == [kind |-> "json", content |-> value]

EmptyDict == [k \in {} |-> "-"]

(***************************************************************************)
(* save_user_info, get_user_info                                           *)
(***************************************************************************)
UserIds == {"u1", "u2"}
ProfileKeys == {"location", "profession"}
\* Values a caller can put into a profile: JSON strings, and an object json.dump
\* cannot serialize (TypeError after the file has been opened for writing).
Unserializable == "<object>"
\* A string that json.dump has to escape.
Quoted == "say \"hi\""
ProfileValues == {"india", "poet", Quoted, Unserializable}

\* The dicts over ProfileKeys: every key absent or mapped to a value.
Infos == UNION {[K -> ProfileValues] : K \in SUBSET ProfileKeys}

Serializable(d) == \A k \in DOMAIN d : d[k] # Unserializable

\* json.dump of a string: the text between double quotes, with the double quotes and
\* backslashes of the string escaped.
json_dump_str ==
    ("india" :> "\"india\"") @@ ("usa" :> "\"usa\"") @@ ("poet" :> "\"poet\"") @@
    (Quoted :> "\"say \\\"hi\\\"\"")

\* json.load of a string literal: the quotes are dropped and the escapes undone.
json_load_str ==
    ("\"india\"" :> "india") @@ ("\"usa\"" :> "usa") @@ ("\"poet\"" :> "poet") @@
    ("\"say \\\"hi\\\"\"" :> "say \"hi\"")

\* A string literal read as it stands in the file.
raw_str == [t \in DOMAIN json_load_str |-> t]

\* json.dump(merged_info, f, indent=4): the members of the object written to the file,
\* the text of its value for every key.
json_dump(d) == [k \in DOMAIN d |-> json_dump_str[d[k]]]

\* The members of the file with their texts left undecoded.
json_load_raw(members) == [k \in DOMAIN members |-> raw_str[members[k]]]

\* json.load(f) of a profile file.
json_load(members) == [k \in DOMAIN members |-> json_load_str[members[k]]]

\* {**existing_info, **info} replaced by info alone.
ReplaceDicts(existing_info, info) == info

\* {**existing_info, **info}
MergeDicts(existing_info, info) ==
    [k \in DOMAIN existing_info \cup DOMAIN info |->
        IF k \in DOMAIN info THEN info[k] ELSE existing_info[k]]

\* What save_user_info returns and the file it leaves, given the file it finds.
save_user_info(file, user_id, info) ==
    IF file.kind \in {"corrupt", "unreadable"}
    THEN \* json.load raises (no JSON, or bytes that are no UTF-8); the file has not
         \* been opened for writing
         [ret |-> [success |-> FALSE, message |-> "Error saving user information: json.load"],
          file |-> file]
    ELSE LET existing_info == IF file.kind = "json" THEN json_load(file.content) ELSE EmptyDict
             merged_info == MergeDicts(existing_info, info)
         IN  IF Serializable(merged_info)
             THEN [ret |-> [success |-> TRUE,
                            message |-> "Successfully saved user information",
                            user_info |-> merged_info],
                   file |-> JsonFile(json_dump(merged_info))]
             ELSE \* open(filename, 'w') has truncated the file, json.dump raises midway
                  [ret |-> [success |-> FALSE,
                            message |-> "Error saving user information: json.dump"],
                   file |-> Corrupt]

\* get_user_info handing out the members of the file as they are written there.
get_user_info_undecoded(file, user_id) ==
    IF file.kind = "json"
    THEN [success |-> TRUE, message |-> "Successfully retrieved user information",
          user_info |-> json_load_raw(file.content)]
    ELSE [success |-> FALSE, message |-> "No information found", user_info |-> EmptyDict]

get_user_info(file, user_id) ==
    IF file.kind = "absent"
    THEN [success |-> FALSE, message |-> "No information found", user_info |-> EmptyDict]
    ELSE IF file.kind \in {"corrupt", "unreadable"}
    THEN [success |-> FALSE, message |-> "Error retrieving user information: json.load",
          user_info |-> EmptyDict]
    ELSE [success |-> TRUE, message |-> "Successfully retrieved user information",
          user_info |-> json_load(file.content)]

(***************************************************************************)
(* The routes of src/routes.py: the HTTP answer to an operation's result.  *)
(***************************************************************************)
NoAnswer == [route |-> "none", status |-> 0, detail |-> ""]

\* No operation has returned yet.
NoOp == [name |-> "none"]

\* No page has been loaded.
NoVisits == [started |-> <<>>, loads |-> 0, raised |-> FALSE, failed |-> {}]

\* No scrape has been asked for.
NoScrape == [pc |-> "idle", username |-> "", max_results |-> 0, source |-> 0, attempt |-> 0,
             tweets |-> <<>>]

\* The failure answered as if it were a success.
HttpOkAnyway(route, status, ret, default) == [route |-> route, status |-> 200, detail |-> ""]

\* raise HTTPException(status_code, detail=result.get("message", default))
HttpError(route, status, ret, default) ==
    [route |-> route, status |-> status,
     detail |-> IF "message" \in DOMAIN ret THEN ret.message ELSE default]

HttpOk(route) == [route |-> route, status |-> 200, detail |-> ""]

\* POST /save-user-info/{user_id}
SaveUserInfoRoute(user_id, info) ==
    LET r == save_user_info(user_info_files[user_id], user_id, info)
    IN  /\ user_info_files' = [user_info_files EXCEPT ![user_id] = r.file]
        /\ last_saved' = IF r.ret.success
                       THEN [last_saved EXCEPT ![user_id] =
                                [k \in DOMAIN @ \cup DOMAIN info |->
                                    IF k \in DOMAIN info THEN info[k] ELSE @[k]]]
                       ELSE last_saved
        /\ op' = [name |-> "save_user_info", user_id |-> user_id, user_info |-> info]
        /\ result' = r.ret
        /\ http' = IF r.ret.success THEN HttpOk("save-user-info")
                   ELSE HttpError("save-user-info", 500, r.ret, "Unknown error")
        /\ UNCHANGED <<tweets_files, analysis_files, scrape, visits,
                       parse_in, parse_out, dedup_in, dedup_out, requests, last_scraped>>

\* A get-user-info that creates an empty profile for a user id that has none.
GetUserInfoRouteCreating(user_id) ==
    LET ret == get_user_info(user_info_files[user_id], user_id)
    IN  /\ user_info_files' = [user_info_files EXCEPT ![user_id] =
                                  IF @.kind = "absent" THEN JsonFile(json_dump(EmptyDict)) ELSE @]
        /\ op' = [name |-> "get_user_info", user_id |-> user_id]
        /\ result' = ret
        /\ http' = IF ret.success THEN HttpOk("get-user-info")
                   ELSE HttpError("get-user-info", 404, ret, "User information not found")
        /\ UNCHANGED <<tweets_files, analysis_files, last_saved,
                       scrape, visits, parse_in, parse_out, dedup_in, dedup_out,
                       requests, last_scraped>>

\* GET /get-user-info/{user_id}
GetUserInfoRoute(user_id) ==
    LET ret == get_user_info(user_info_files[user_id], user_id)
    IN  /\ op' = [name |-> "get_user_info", user_id |-> user_id]
        /\ result' = ret
        /\ http' = IF ret.success THEN HttpOk("get-user-info")
                   ELSE HttpError("get-user-info", 404, ret, "User information not found")
        /\ UNCHANGED <<user_info_files, tweets_files, analysis_files, last_saved,
                       scrape, visits, parse_in, parse_out, dedup_in, dedup_out,
                       requests, last_scraped>>

(***************************************************************************)
(* scrape_with_playwright: the pages it loads and the posts it builds.     *)
(***************************************************************************)
\* sources, in the order of the list (0-based position i is Sources[i + 1]).
Sources ==
    << [name |-> "X.com (primary)", url |-> "https://x.com/{username}", type |-> "xcom"],
       [name |-> "Nitter (primary)", url |-> "https://nitter.net/{username}", type |-> "nitter"],
       [name |-> "Nitter (fallback)", url |-> "https://nitter.tiekoetter.com/{username}",
        type |-> "nitter"] >>

\* retries = 2: a source is attempted for attempt in range(retries + 1).
Retries == 2
\* if len(text) < 10: continue
MinTextLen == 10
\* "text": text[:280]
MaxTweetChars == 280
\* top_tweets = unique_tweets[:30]
TopTweets == 30

\* n copies of the character c.
RECURSIVE Rep(_, _)
Rep(c, n) == IF n = 0 THEN <<>> ELSE <<c>> \o Rep(c, n - 1)

\* re.sub(r'\s+', ' ', text): every run of whitespace becomes one blank.
RECURSIVE CollapseWs(_)
CollapseWs(t) ==
    IF t = <<>> THEN <<>>
    ELSE IF t[1] = " " /\ Len(t) > 1 /\ t[2] = " " THEN CollapseWs(Tail(t))
    ELSE <<t[1]>> \o CollapseWs(Tail(t))

\* text = (await text_elem.text_content()).strip(); text = re.sub(r'\s+', ' ', text)
ScrapedText(raw) == CollapseWs(strip(raw))

\* What one tweet element of a page holds. text: the text of its content element
\* (NoTextElem when it has none); broken: reading it raises, which the loop catches;
\* status: the digits of its /status/ link ("" when it has no such link);
\* datetime: its date element's attribute ("" when it has no date element).
NoTextElem == <<"<no content element>">>

ElemA ==
    [text |-> Rep("a", 10), likes |-> 3, retweets |-> 1, replies |-> 2,
     status |-> "101", datetime |-> "2025-05-01T09:00:00", broken |-> FALSE]
\* The text of ElemA in capitals inside blanks; no status link, no date element.
ElemADup ==
    [text |-> <<" ", " ">> \o Rep("A", 10) \o <<" ">>, likes |-> 0, retweets |-> 0,
     replies |-> 0, status |-> "", datetime |-> "", broken |-> FALSE]
\* Runs of blanks inside the text; ten characters once they are collapsed.
ElemC ==
    [text |-> <<"a", "b", " ", " ", " ", "a", "b", " ", " ", "a", "b", "a", "b">>,
     likes |-> 1, retweets |-> 2, replies |-> 1,
     status |-> "102", datetime |-> "2025-05-02T09:00:00", broken |-> FALSE]
\* Nine characters: one short of MinTextLen.
ElemShort ==
    [text |-> Rep("b", 9), likes |-> 5, retweets |-> 5, replies |-> 5,
     status |-> "103", datetime |-> "", broken |-> FALSE]
ElemNoText ==
    [text |-> NoTextElem, likes |-> 0, retweets |-> 0, replies |-> 0,
     status |-> "", datetime |-> "", broken |-> FALSE]
ElemBroken ==
    [text |-> Rep("B", 12), likes |-> 2, retweets |-> 0, replies |-> 1,
     status |-> "104", datetime |-> "", broken |-> TRUE]

\* str(i) for the positions a page can have.
IndexName(i) ==
    CASE i = 0 -> "0" [] i = 1 -> "1" [] i = 2 -> "2" [] i = 3 -> "3" [] OTHER -> "n"

\* Whether the loop body appends a post for the element: it has a content element,
\* reading it does not raise, and its text has at least MinTextLen characters.
YieldsTweet(element) ==
    /\ ~element.broken
    /\ element.text # NoTextElem
    /\ Len(ScrapedText(element.text)) >= MinTextLen

\* likes + 2 * retweets, in half units: the replies term left out.
ScoreWithoutReplies(likes, retweets, replies) == 2 * likes + 4 * retweets

\* stats['likes'] + (stats['retweets'] * 2) + (stats['replies'] * 0.5), in half units.
EngagementScore(likes, retweets, replies) == 2 * likes + 4 * retweets + replies

\* stats = {'likes': 0, 'retweets': 0, 'replies': 0} filled from the element. On a
\* nitter page the three counters are read from the stat spans. On x.com the counter of
\* stat_type is stored under stat_type + 's': 'likes', 'retweets' and 'replys', so
\* stats['replies'] stays 0.
Stats(element, source_type) ==
    [ likes |-> element.likes,
      retweets |-> element.retweets,
      replies |-> IF source_type = "nitter" THEN element.replies ELSE 0 ]

\* The tweet dict built for element i (0-based) of a page of a source.
BuildTweet(element, i, source_type, username) ==
    LET stats == Stats(element, source_type)
        text == ScrapedText(element.text)
    IN  [ id |-> IF element.status # "" THEN <<element.status>>
                 ELSE <<source_type, "_", IndexName(i)>>,
          text |-> SubSeq(text, 1, Min(MaxTweetChars, Len(text))),
          likes |-> stats.likes,
          retweets |-> stats.retweets,
          replies |-> stats.replies,
          views |-> (stats.likes + stats.retweets) * 10,
          date |-> IF element.datetime # "" THEN element.datetime ELSE "now",
          user |-> username,
          engagement_score |-> EngagementScore(stats.likes, stats.retweets, stats.replies) ]

\* The extraction loop without the check of len(tweets) against max_results.
RECURSIVE ExtractAll(_, _, _, _, _, _)
ExtractAll(tweets, elements, i, max_results, source_type, username) ==
    IF i >= Len(elements) THEN tweets
    ELSE IF YieldsTweet(elements[i + 1])
    THEN ExtractAll(Append(tweets, BuildTweet(elements[i + 1], i, source_type, username)),
                    elements, i + 1, max_results, source_type, username)
    ELSE ExtractAll(tweets, elements, i + 1, max_results, source_type, username)

\* for i, element in enumerate(tweet_elements): the loop from element i + 1 on, which
\* stops as soon as len(tweets) >= max_results.
RECURSIVE ExtractLoop(_, _, _, _, _, _)
ExtractLoop(tweets, elements, i, max_results, source_type, username) ==
    IF i >= Len(elements) \/ Len(tweets) >= max_results THEN tweets
    ELSE IF YieldsTweet(elements[i + 1])
    THEN ExtractLoop(Append(tweets, BuildTweet(elements[i + 1], i, source_type, username)),
                     elements, i + 1, max_results, source_type, username)
    ELSE ExtractLoop(tweets, elements, i + 1, max_results, source_type, username)

\* How one page load can end, besides yielding the page's tweet elements.
\*   raises      page.goto, a wait or a query raised (PlaywrightError or another Exception)
\*   error       the source's error panel is on the page
\*   challenge   x.com answered with a verification challenge or a login prompt
\*   no_tweets   neither tweet selector appeared before its timeout
Outcomes(source_type) ==
    {"raises", "error", "no_tweets", "elements"}
        \cup (IF source_type = "xcom" THEN {"challenge"} ELSE {})

(***************************************************************************)
(* save_data, load_data, PostGenerator.load_tweets                          *)
(***************************************************************************)
\* How a write of a data file can go: json.dump into the opened file; open() raising
\* (the file stays as it was); or json.dump raising after open(filename, 'w') has
\* truncated the file (a write error, or a value json cannot write), which leaves a
\* document cut short. Either exception is logged and swallowed.
WriteOutcomes == {"written", "open raises", "dump raises"}

\* The file save_data leaves behind.
save_data(file, data, write) ==
    IF write = "written" THEN JsonFile(data)
    ELSE IF write = "dump raises" THEN Corrupt
    ELSE file

\* load_data lets every exception but FileNotFoundError and json.JSONDecodeError escape.
load_data_raises(file) == file.kind = "unreadable"

\* load_data(username, "tweets"): a missing or undecodable file reads as [].
load_tweets_data(file) == IF file.kind = "json" THEN file.content ELSE <<>>

\* load_data(username, "analysis"): a missing or undecodable file reads as {}.
load_analysis_data(file) == IF file.kind = "json" THEN file.content ELSE EmptyDict

\* tweet.get(key, 0)
GetOr0(tweet, key) == IF key \in DOMAIN tweet THEN tweet[key] ELSE 0

\* x.get("engagement_score", 0)
ScoreOf(tweet) == GetOr0(tweet, "engagement_score")

\* tweet["engagement_score"] = likes + (retweets * 2), in half units, for a post that
\* has no engagement_score; other posts are returned as stored.
WithScore(tweet) ==
    IF "engagement_score" \in DOMAIN tweet THEN tweet
    ELSE [k \in DOMAIN tweet \cup {"engagement_score"} |->
            IF k = "engagement_score"
            THEN 2 * (GetOr0(tweet, "likes") + GetOr0(tweet, "retweets") * 2)
            ELSE tweet[k]]

\* PostGenerator.load_tweets: [] for a missing file; only FileNotFoundError is caught, so
\* json.load raising on a file that holds no JSON or cannot be decoded leaves the call.
load_tweets(file) ==
    IF file.kind = "absent" THEN [raised |-> FALSE, tweets |-> <<>>]
    ELSE IF file.kind \in {"corrupt", "unreadable"} THEN [raised |-> TRUE, tweets |-> <<>>]
    ELSE [raised |-> FALSE,
          tweets |-> [i \in 1..Len(file.content) |-> WithScore(file.content[i])]]

(***************************************************************************)
(* analyze_tweets                                                          *)
(***************************************************************************)
\* The dict a parsed JSON object stands for: member name -> the member's value (tokens).
\* A name that occurs twice keeps its last value.
RECURSIVE MembersFrom(_, _, _)
MembersFrom(v, i, acc) ==
    IF v[i] = RBRACE THEN acc
    ELSE LET e == EndOfValue(v, i + 1)
             member == KeyName[v[i]] :> SubSeq(v, i + 1, e - 1)
         IN  MembersFrom(v, IF v[e] = COMMA THEN e + 1 ELSE e, member @@ acc)

ObjToDict(v) == MembersFrom(v, 2, EmptyDict)

\* isinstance(value, dict)
IsDict(v) == v[1] = LBRACE
\* not value: the empty object, the empty array, the empty string.
Falsy(v) == v \in {<<LBRACE, RBRACE>>, <<LBRACK, RBRACK>>, <<"\"\"">>}

JsonTrue == <<"true">>
JsonFalse == <<"false">>
EmptyList == <<LBRACK, RBRACK>>

\* The hard-coded fallback analysis.
fallback_analysis ==
    [ success |-> JsonTrue,
      content_patterns |->
        <<LBRACK, "\"Sharing unique insights and perspectives\"", COMMA,
          "\"Addressing common pain points\"", COMMA,
          "\"Using concise, impactful language\"", RBRACK>>,
      style_elements |->
        <<LBRACK, "\"Direct and authentic voice\"", COMMA,
          "\"Clear and concise messaging\"", COMMA,
          "\"Strategic use of punctuation\"", RBRACK>>,
      optimal_format |->
        <<"\"Short, clear statements with substance or relatable observations\"">>,
      recommendations |->
        <<LBRACK, "\"Share unique insights and perspectives\"", COMMA,
          "\"Keep tweets concise and focused\"", COMMA,
          "\"Include specific details when relevant\"", COMMA,
          "\"Address common pain points or interests\"", RBRACK>> ]

AnalysisFields == {"content_patterns", "style_elements", "optimal_format", "recommendations"}

\* analysis_result["success"] = True, then the default of every missing field.
WithAnalysisDefaults(d) ==
    [k \in DOMAIN d \cup AnalysisFields \cup {"success"} |->
        IF k = "success" THEN JsonTrue
        ELSE IF k \in DOMAIN d THEN d[k]
        ELSE IF k = "optimal_format" THEN <<"\"Not provided by analysis\"">>
        ELSE EmptyList]

\* What llm.invoke does: it raises, or it answers with a text.
LlmRaises == <<"<llm.invoke raises>">>

\* analyze_tweets(username, tweets) given what the model does: the dict it returns and
\* whether it hands that dict to save_data.
analyze_tweets(username, tweets, llm) ==
    IF tweets = <<>>
    THEN [ret |-> [success |-> JsonFalse, message |-> <<"\"No tweets available for analysis\"">>],
          save |-> FALSE]
    ELSE IF llm = LlmRaises
    THEN [ret |-> [success |-> JsonFalse, message |-> <<"\"Error analyzing tweets: ...\"">>],
          save |-> FALSE]
    ELSE LET analysis_result == parse_json_from_response(llm)
         IN  IF Falsy(analysis_result) \/ ~IsDict(analysis_result)
             THEN [ret |-> fallback_analysis, save |-> TRUE]
             ELSE [ret |-> WithAnalysisDefaults(ObjToDict(analysis_result)), save |-> TRUE]

(***************************************************************************)
(* scrape_profile                                                          *)
(***************************************************************************)
Take(seq, n) == SubSeq(seq, 1, Min(n, Len(seq)))

\* list.sort(key=engagement_score, reverse=True) is stable: a post goes behind every
\* post whose score is at least its own.
RECURSIVE InsertByScore(_, _)
InsertByScore(sorted, tweet) ==
    IF sorted = <<>> THEN <<tweet>>
    ELSE IF ScoreOf(sorted[1]) >= ScoreOf(tweet)
    THEN <<sorted[1]>> \o InsertByScore(Tail(sorted), tweet)
    ELSE <<tweet>> \o sorted

RECURSIVE SortByScore(_)
SortByScore(tweets) ==
    IF tweets = <<>> THEN <<>>
    ELSE InsertByScore(SortByScore(SubSeq(tweets, 1, Len(tweets) - 1)), tweets[Len(tweets)])

\* The result of a scrape that collected nothing or raised.
FailedScrape(message) ==
    [ success |-> FALSE, message |-> message, tweet_count |-> 0, top_tweets_count |-> 0,
      performance_analysis |-> EmptyDict, sample_tweets |-> <<>>, tweets |-> <<>> ]

\* scrape_profile writing the posts file before it looks at the list.
scrape_profile_saving_first(username, tweets, tweets_file, analysis_file, llm, tweets_write, analysis_write) ==
    [ret |-> FailedScrape("No tweets found"),
     tweets_file |-> save_data(tweets_file, tweets, tweets_write),
     analysis_file |-> analysis_file]

\* scrape_profile from the list scrape_with_playwright returned on: the result, and the
\* two data files of the username as it leaves them.
scrape_profile(username, tweets, tweets_file, analysis_file, llm, tweets_write, analysis_write) ==
    IF tweets = <<>>
    THEN [ret |-> FailedScrape("No tweets found"),
          tweets_file |-> tweets_file, analysis_file |-> analysis_file]
    ELSE LET unique_tweets == SortByScore(deduplicate_tweets(tweets))
             top_tweets == Take(unique_tweets, TopTweets)
             analysis == analyze_tweets(username, top_tweets, llm)
         IN  [ret |-> [ success |-> TRUE,
                        message |-> "Successfully scraped profile",
                        tweet_count |-> Len(unique_tweets),
                        top_tweets_count |-> Len(top_tweets),
                        performance_analysis |-> analysis.ret,
                        sample_tweets |-> Take(top_tweets, 5),
                        tweets |-> Take(top_tweets, 10) ],
              tweets_file |-> save_data(tweets_file, top_tweets, tweets_write),
              analysis_file |-> IF analysis.save
                                THEN save_data(analysis_file, analysis.ret, analysis_write)
                                ELSE analysis_file]

(***************************************************************************)
(* generate_post                                                           *)
(***************************************************************************)
\* The elements of a parsed JSON array, each as its tokens.
RECURSIVE ElementsFrom(_, _)
ElementsFrom(v, i) ==
    IF v[i] = RBRACK THEN <<>>
    ELSE LET e == EndOfValue(v, i)
         IN  <<SubSeq(v, i, e - 1)>> \o ElementsFrom(v, IF v[e] = COMMA THEN e + 1 ELSE e)

ListToSeq(v) == ElementsFrom(v, 2)

\* The JSON array of the given values.
RECURSIVE JoinElements(_)
JoinElements(values) ==
    IF values = <<>> THEN <<>>
    ELSE IF Len(values) = 1 THEN values[1]
    ELSE values[1] \o <<COMMA>> \o JoinElements(Tail(values))

SeqToList(values) == <<LBRACK>> \o JoinElements(values) \o <<RBRACK>>

IsList(v) == v[1] = LBRACK
IsString(v) == Len(v) = 1 /\ v[1] \in StringTokens

\* _format_hashtag on the strings of the model: '#' and whitespace removed, lower case.
format_hashtag(t) ==
    CASE t = "\"#AI\"" -> "\"ai\""
      [] t = "\"#\"" -> "\"\""
      [] t = "\"**Ship** it\"" -> "\"**ship**it\""
      [] t = "\"1/2 a\"" -> "\"1/2a\""
      [] t = "\"2/2 b\"" -> "\"2/2b\""
      [] t = "\"JSON parsing error\"" -> "\"jsonparsingerror\""
      [] t = "\"JSON parsing error: ...\"" -> "\"jsonparsingerror:...\""
      [] t = "\"one idea per post\"" -> "\"oneideaperpost\""
      [] t = "\"Ship it\"" -> "\"shipit\""
      [] t = "\"AI\"" -> "\"ai\""
      [] t = "\"High\"" -> "\"high\""
      [] t = "\"Could not generate post.\"" -> "\"couldnotgeneratepost.\""
      [] OTHER -> t

\* _clean_post_text on the strings of the model: tags and the characters * _ ` # removed,
\* whitespace runs collapsed.
clean_string(t) ==
    CASE t = "\"**Ship** it\"" -> "\"Ship it\""
      [] t = "\"#AI\"" -> "\"AI\""
      [] t = "\"#\"" -> "\"\""
      [] t = "\"ai_tools\"" -> "\"aitools\""
      [] OTHER -> t

\* What a step of generate_post that can raise yields: a value, or the exception.
Ok(v) == [raised |-> FALSE, value |-> v]
Raised == [raised |-> TRUE, value |-> <<>>]

\* _clean_post_text(result["post"]): "" for a falsy value, every item of a list cleaned,
\* a string cleaned; re.sub raises TypeError on a number or an object.
RECURSIVE clean_post_text(_)
clean_post_text(v) ==
    IF Falsy(v) THEN Ok(<<"\"\"">>)
    ELSE IF IsList(v)
    THEN LET items == [i \in 1..Len(ListToSeq(v)) |-> clean_post_text(ListToSeq(v)[i])]
         IN  IF \E i \in 1..Len(items) : items[i].raised THEN Raised
             ELSE Ok(SeqToList([i \in 1..Len(items) |-> items[i].value]))
    ELSE IF IsString(v) THEN Ok(<<clean_string(v[1])>>)
    ELSE Raised

\* The names of the members of a parsed JSON object, in the order a dict keeps them: a
\* name that occurs twice stands where it occurred first.
RECURSIVE KeysFrom(_, _, _)
KeysFrom(v, i, acc) ==
    IF v[i] = RBRACE THEN acc
    ELSE LET e == EndOfValue(v, i + 1)
             name == KeyName[v[i]]
         IN  KeysFrom(v, IF v[e] = COMMA THEN e + 1 ELSE e,
                      IF \E j \in 1..Len(acc) : acc[j] = name THEN acc ELSE Append(acc, name))

ObjKeys(v) == KeysFrom(v, 2, <<>>)

\* [self._format_hashtag(c) for c in tag if c] for every string of the model: iterating a
\* string yields its characters, and '#' and whitespace characters come out as "".
HashtagsOfChars ==
    ("\"s\"" :> <<"\"s\"">>) @@
    ("\"\"" :> <<>>) @@
    ("\"JSON parsing error\"" :> <<"\"j\"", "\"s\"", "\"o\"", "\"n\"", "\"\"", "\"p\"", "\"a\"", "\"r\"", "\"s\"", "\"i\"", "\"n\"", "\"g\"", "\"\"", "\"e\"", "\"r\"", "\"r\"", "\"o\"", "\"r\"">>) @@
    ("\"JSON parsing error: ...\"" :> <<"\"j\"", "\"s\"", "\"o\"", "\"n\"", "\"\"", "\"p\"", "\"a\"", "\"r\"", "\"s\"", "\"i\"", "\"n\"", "\"g\"", "\"\"", "\"e\"", "\"r\"", "\"r\"", "\"o\"", "\"r\"", "\":\"", "\"\"", "\".\"", "\".\"", "\".\"">>) @@
    ("\"questions\"" :> <<"\"q\"", "\"u\"", "\"e\"", "\"s\"", "\"t\"", "\"i\"", "\"o\"", "\"n\"", "\"s\"">>) @@
    ("\"one idea per post\"" :> <<"\"o\"", "\"n\"", "\"e\"", "\"\"", "\"i\"", "\"d\"", "\"e\"", "\"a\"", "\"\"", "\"p\"", "\"e\"", "\"r\"", "\"\"", "\"p\"", "\"o\"", "\"s\"", "\"t\"">>) @@
    ("\"**Ship** it\"" :> <<"\"*\"", "\"*\"", "\"s\"", "\"h\"", "\"i\"", "\"p\"", "\"*\"", "\"*\"", "\"\"", "\"i\"", "\"t\"">>) @@
    ("\"Ship it\"" :> <<"\"s\"", "\"h\"", "\"i\"", "\"p\"", "\"\"", "\"i\"", "\"t\"">>) @@
    ("\"1/2 a\"" :> <<"\"1\"", "\"/\"", "\"2\"", "\"\"", "\"a\"">>) @@
    ("\"2/2 b\"" :> <<"\"2\"", "\"/\"", "\"2\"", "\"\"", "\"b\"">>) @@
    ("\"#AI\"" :> <<"\"\"", "\"a\"", "\"i\"">>) @@
    ("\"AI\"" :> <<"\"a\"", "\"i\"">>) @@
    ("\"ai\"" :> <<"\"a\"", "\"i\"">>) @@
    ("\"#\"" :> <<"\"\"">>) @@
    ("\"ai_tools\"" :> <<"\"a\"", "\"i\"", "\"_\"", "\"t\"", "\"o\"", "\"o\"", "\"l\"", "\"s\"">>) @@
    ("\"aitools\"" :> <<"\"a\"", "\"i\"", "\"t\"", "\"o\"", "\"o\"", "\"l\"", "\"s\"">>) @@
    ("\"high\"" :> <<"\"h\"", "\"i\"", "\"g\"", "\"h\"">>) @@
    ("\"low\"" :> <<"\"l\"", "\"o\"", "\"w\"">>) @@
    ("\"medium\"" :> <<"\"m\"", "\"e\"", "\"d\"", "\"i\"", "\"u\"", "\"m\"">>) @@
    ("\"High\"" :> <<"\"h\"", "\"i\"", "\"g\"", "\"h\"">>) @@
    ("\"viral\"" :> <<"\"v\"", "\"i\"", "\"r\"", "\"a\"", "\"l\"">>) @@
    ("\"Could not generate post.\"" :> <<"\"c\"", "\"o\"", "\"u\"", "\"l\"", "\"d\"", "\"\"", "\"n\"", "\"o\"", "\"t\"", "\"\"", "\"g\"", "\"e\"", "\"n\"", "\"e\"", "\"r\"", "\"a\"", "\"t\"", "\"e\"", "\"\"", "\"p\"", "\"o\"", "\"s\"", "\"t\"", "\".\"">>)

\* [self._format_hashtag(tag) for tag in result["hashtags"] if tag]: the comprehension
\* iterates whatever stands under "hashtags". A list yields its elements (a non-empty
\* element that is no string raises TypeError in re.sub), a dict its keys, a string its
\* characters; a number is not iterable (TypeError).
format_hashtags(v) ==
    IF IsList(v)
    THEN LET tags == SelectSeq(ListToSeq(v), LAMBDA tag : ~Falsy(tag))
         IN  IF \E i \in 1..Len(tags) : ~IsString(tags[i]) THEN Raised
             ELSE Ok(SeqToList([i \in 1..Len(tags) |-> <<format_hashtag(tags[i][1])>>]))
    ELSE IF IsDict(v)
    THEN Ok(SeqToList([i \in 1..Len(ObjKeys(v)) |->
                          <<format_hashtag("\"" \o ObjKeys(v)[i] \o "\"")>>]))
    ELSE IF IsString(v)
    THEN Ok(SeqToList([i \in 1..Len(HashtagsOfChars[v[1]]) |-> <<HashtagsOfChars[v[1]][i]>>]))
    ELSE Raised

\* The location strings of the model whose lower case holds "india" or "bengaluru".
MentionsIndia ==
    {"india", "India", "INDIA", "bengaluru", "Bengaluru", "Bengaluru, India",
     "indianapolis, usa"}

\* The location strings of the model whose lower case holds "us" or "america" (and
\* neither "india" nor "bengaluru"): the test is on substrings, so "russia" and
\* "austin" are among them.
MentionsUs ==
    {"us", "US", "usa", "USA", "america", "America", "russia", "austin", "Austin",
     "houston", "brussels"}

\* _get_best_time(location, length); location is a string of MentionsIndia, of
\* MentionsUs, or one that holds none of the four words ("unknown", "poet", ...).
get_best_time(location, length) ==
    IF location \in MentionsIndia
    THEN IF length # "Long" THEN <<"\"Post at 9 AM IST or 6 PM IST\"">>
         ELSE <<"\"Post at 9 AM IST, follow-ups every 2-3 minutes\"">>
    ELSE IF location \in MentionsUs
    THEN IF length # "Long" THEN <<"\"Post at 8 AM PST or 5 PM PST\"">>
         ELSE <<"\"Post at 8 AM PST, follow-ups every 2-3 minutes\"">>
    ELSE IF length # "Long" THEN <<"\"Post at 8-10 AM or 6-8 PM local time\"">>
         ELSE <<"\"Post at 8 AM local time, follow-ups every 2-3 minutes\"">>

\* The sum of a sequence of numbers.
RECURSIVE SumSeq(_)
SumSeq(values) == IF values = <<>> THEN 0 ELSE values[1] + SumSeq(Tail(values))

\* [tweet.get(key, 0) or 0 for tweet in tweets]
Counters(tweets, key) == [i \in 1..Len(tweets) |-> GetOr0(tweets[i], key)]

\* Every value kept, zeros included.
AllValues(values) == values

\* [v for v in values if v > 0]
PositiveValues(values) == SelectSeq(values, LAMBDA v : v > 0)

\* [v for v in values if v > 0] or [default]
PositiveOr(values, default) ==
    IF PositiveValues(values) = <<>> THEN <<default>> ELSE PositiveValues(values)

\* The defaults of the three counters: [200], [30], [2000].
DefaultLikes == 200
DefaultRetweets == 30
DefaultViews == 2000

\* engagement_level.lower() on the levels of the model.
LowerLevel(t) == IF t = "\"High\"" THEN "\"high\"" ELSE t

\* The multiplier in halves: 1.5 for high, 0.5 for low, 1.0 for any other string.
LevelFactor(engagement_level) ==
    IF LowerLevel(engagement_level[1]) = "\"high\"" THEN 3
    ELSE IF LowerLevel(engagement_level[1]) = "\"low\"" THEN 1
    ELSE 2

(***************************************************************************)
(* The arithmetic of estimate_engagement. Python's float is the IEEE 754    *)
(* double: 53 significant bits, every operation rounded to the nearest     *)
(* double, ties to the even one. A positive double is kept as [m, e] with  *)
(* value m * 2^e and 2^52 <= m < 2^53; m is a natural number of any size,   *)
(* kept as its digits in base 2^15, least significant first.               *)
(***************************************************************************)
Limb == 32768

RECURSIVE BigOfInt(_)
BigOfInt(n) == IF n = 0 THEN <<>> ELSE <<n % Limb>> \o BigOfInt(n \div Limb)

\* The number of a digit sequence that stands for less than 2^31.
RECURSIVE BigToInt(_)
BigToInt(a) == IF a = <<>> THEN 0 ELSE a[1] + Limb * BigToInt(Tail(a))

\* Without leading zero digits.
RECURSIVE Trim(_)
Trim(a) == IF a # <<>> /\ a[Len(a)] = 0 THEN Trim(SubSeq(a, 1, Len(a) - 1)) ELSE a

\* a * k + carry, for k <= 2^15
RECURSIVE MulSmall(_, _, _)
MulSmall(a, k, carry) ==
    IF a = <<>> THEN BigOfInt(carry)
    ELSE <<(a[1] * k + carry) % Limb>> \o MulSmall(Tail(a), k, (a[1] * k + carry) \div Limb)

\* a + b + carry
RECURSIVE BigAdd(_, _, _)
BigAdd(a, b, carry) ==
    IF a = <<>> /\ b = <<>> THEN BigOfInt(carry)
    ELSE LET x == IF a = <<>> THEN 0 ELSE a[1]
             y == IF b = <<>> THEN 0 ELSE b[1]
         IN  <<(x + y + carry) % Limb>>
                \o BigAdd(IF a = <<>> THEN a ELSE Tail(a), IF b = <<>> THEN b ELSE Tail(b),
                          (x + y + carry) \div Limb)

\* a * b
RECURSIVE BigMul(_, _)
BigMul(a, b) ==
    IF b = <<>> THEN <<>>
    ELSE Trim(BigAdd(MulSmall(a, b[1], 0), <<0>> \o BigMul(a, Tail(b)), 0))

\* Quotient and remainder of a by d, for 0 < d < 2^16.
RECURSIVE DivSmall(_, _)
DivSmall(a, d) ==
    IF a = <<>> THEN [q |-> <<>>, r |-> 0]
    ELSE LET hi == DivSmall(Tail(a), d)
         IN  [q |-> <<(hi.r * Limb + a[1]) \div d>> \o hi.q, r |-> (hi.r * Limb + a[1]) % d]

RECURSIVE Pow2(_)
Pow2(k) == IF k = 0 THEN 1 ELSE 2 * Pow2(k - 1)

\* The number of bits of a number below 2^15, and of a number of any size.
RECURSIVE Bits(_)
Bits(n) == IF n = 0 THEN 0 ELSE 1 + Bits(n \div 2)

BitLenTrimmed(t) == IF t = <<>> THEN 0 ELSE 15 * (Len(t) - 1) + Bits(t[Len(t)])

BitLen(a) == BitLenTrimmed(Trim(a))

\* a * 2^k
ShiftLeft(a, k) == [i \in 1..(k \div 15) |-> 0] \o MulSmall(a, Pow2(k % 15), 0)

\* a \div 2^k, and whether bits that are not zero were dropped.
DroppedBits(d, dropped) == [q |-> Trim(d.q), inexact |-> d.r # 0 \/ dropped]

ShiftRight(a, k) ==
    DroppedBits(DivSmall(SubSeq(a, Min(k \div 15, Len(a)) + 1, Len(a)), Pow2(k % 15)),
                \E i \in 1..Min(k \div 15, Len(a)) : a[i] # 0)

\* The double nearest to n * 2^e (more exactly, to a number from n * 2^e to below
\* (n + 1) * 2^e, above n * 2^e when inexact; n has its 53 bits and a guard bit then),
\* ties to even.
\* The steps, last first: a mantissa that the rounding carried to 54 bits loses its last
\* (zero) bit; h is the 54 bits halved, rounded up on a remainder with a tie to even; s
\* is n cut to 54 bits.
Normalised(m, e) ==
    IF BitLen(m) = 54 THEN [m |-> ShiftRight(m, 1).q, e |-> e + 1] ELSE [m |-> m, e |-> e]

RoundHalved(h, inexact, e) ==
    Normalised(IF h.r = 1 /\ (inexact \/ h.q[1] % 2 = 1)
               THEN Trim(BigAdd(Trim(h.q), <<1>>, 0)) ELSE Trim(h.q), e)

RoundCut(s, inexact, e) == RoundHalved(DivSmall(s.q, 2), s.inexact \/ inexact, e)

RoundOfLen(n, e, inexact, len) ==
    IF len <= 53 THEN [m |-> ShiftLeft(Trim(n), 53 - len), e |-> e - (53 - len)]
    ELSE RoundCut(ShiftRight(n, len - 54), inexact, e + len - 53)

RoundToDouble(n, e, inexact) == RoundOfLen(n, e, inexact, BitLen(n))

\* The double nearest to the quotient d.q with remainder d.r, times 2^e.
RoundQuotient(d, e) == RoundToDouble(Trim(d.q), e, d.r # 0)

\* p / q of two integers, p > 0 and 0 < q < 2^16: int / int, and the literals 0.7, 1.3,
\* 1.5, 0.5 and 1.0.
DoubleOfRatio(p, q) == RoundQuotient(DivSmall(ShiftLeft(BigOfInt(p), 75), q), -75)

\* x * y
DoubleTimes(x, y) == RoundToDouble(BigMul(x.m, y.m), x.e + y.e, FALSE)

\* x / 1000
DoubleOverThousand(x) == RoundQuotient(DivSmall(ShiftLeft(x.m, 30), 1000), x.e - 30)

\* x / 1000000
RoundQuotients(d1, d2, e) == RoundToDouble(Trim(d2.q), e, d1.r # 0 \/ d2.r # 0)

OverThousandAgain(d1, e) == RoundQuotients(d1, DivSmall(Trim(d1.q), 1000), e)

DoubleOverMillion(x) == OverThousandAgain(DivSmall(ShiftLeft(x.m, 30), 1000), x.e - 30)

\* int(x), for x below 2^31
IntPart(x) ==
    IF x.e >= 0 THEN BigToInt(ShiftLeft(x.m, x.e)) ELSE BigToInt(ShiftRight(x.m, 0 - x.e).q)

\* The digits f"{x:.1f}" prints, as a number of tenths: x * 10 rounded to the nearest
\* integer, an exact tie to the even one (x below 2^27).
TenthsRounded(tenths, half, inexact) ==
    IF half /\ (inexact \/ tenths % 2 = 1) THEN tenths + 1 ELSE tenths

TenthsHalved(h, inexact) == TenthsRounded(BigToInt(Trim(h.q)), h.r = 1, inexact)

TenthsCut(s) == TenthsHalved(DivSmall(s.q, 2), s.inexact)

TenthsOf(x) == TenthsCut(ShiftRight(MulSmall(x.m, 10, 0), 0 - x.e - 1))

\* f"{x:.1f}" of x = tenths / 10
OneDecimal(tenths) == ToString(tenths \div 10) \o "." \o ToString(tenths % 10)

\* format_number(num): millions and thousands with one decimal, anything smaller
\* truncated to an integer.
FormatWhole(num, whole) ==
    IF whole >= 1000000 THEN OneDecimal(TenthsOf(DoubleOverMillion(num))) \o "M"
    ELSE IF whole >= 1000 THEN OneDecimal(TenthsOf(DoubleOverThousand(num))) \o "K"
    ELSE ToString(whole)

format_number(num) == FormatWhole(num, IntPart(num))

\* The literals 0.7 and 1.3.
Point7 == DoubleOfRatio(7, 10)
OnePoint3 == DoubleOfRatio(13, 10)

\* f"{format_number(est * 0.7)}-{format_number(est * 1.3)}" of est = avg * multiplier,
\* avg = sum(values) / len(values), multiplier = factor / 2.
RangeAround(est) ==
    format_number(DoubleTimes(est, Point7)) \o "-" \o format_number(DoubleTimes(est, OnePoint3))

RangeOf(values, factor) ==
    RangeAround(DoubleTimes(DoubleOfRatio(SumSeq(values), Len(values)),
                            DoubleOfRatio(factor, 2)))

\* {"likes": "100-300", "retweets": "10-50", "views": "1K-3K"}
FixedRanges == [likes |-> "100-300", retweets |-> "10-50", views |-> "1K-3K"]

\* estimate_engagement(engagement_level, tweets): the fixed ranges for no posts, and for
\* a level that is no string (engagement_level.lower() raises inside the try);
\* otherwise the ranges around the average of the positive counters.
estimate_engagement_body(engagement_level, tweets) ==
    IF tweets = <<>> THEN FixedRanges
    ELSE IF ~IsString(engagement_level) THEN FixedRanges
    ELSE [ likes |-> RangeOf(PositiveOr(Counters(tweets, "likes"), DefaultLikes),
                             LevelFactor(engagement_level)),
           retweets |-> RangeOf(PositiveOr(Counters(tweets, "retweets"), DefaultRetweets),
                                LevelFactor(engagement_level)),
           views |-> RangeOf(PositiveOr(Counters(tweets, "views"), DefaultViews),
                             LevelFactor(engagement_level)) ]

(***************************************************************************)
(* The levels and post lists estimate_engagement is applied to in the      *)
(* specifications.                                                         *)
(***************************************************************************)
\* Posts as a scrape of alice stored them: highest score first.
StoredTweets ==
    << BuildTweet(ElemA, 1, "nitter", "alice"), BuildTweet(ElemC, 0, "nitter", "alice") >>

\* Posts as a file written by another version can hold them: no engagement_score,
\* possibly no counters.
LegacyTweets ==
    << [text |-> Rep("b", 10), likes |-> 4, retweets |-> 1, replies |-> 3],
       [text |-> Rep("a", 10), retweets |-> 2] >>

\* The longest post list of SpecEstimate.
MaxEstimated == 2

\* A post with larger counters: 0.7 * 1.5 * 60 is 63 and 0.7 * 4500 is 3150, half-way
\* between 3.1K and 3.2K.
PopularTweet ==
    [text |-> Rep("a", 10), likes |-> 60, retweets |-> 1250, replies |-> 0, views |-> 4500,
     id |-> <<"103">>, date |-> "2025-05-02T09:00:00", user |-> "alice",
     engagement_score |-> 2 * 60 + 4 * 1250]

\* Posts as the scraper stores them (one of them with no positive counter), posts of an
\* older file that lack counters, and a post with larger counters.
EstimatePosts ==
    { BuildTweet(ElemA, 0, "nitter", "alice"),
      BuildTweet(ElemC, 1, "nitter", "alice"),
      BuildTweet(ElemADup, 2, "nitter", "alice"),
      LegacyTweets[1],
      LegacyTweets[2],
      PopularTweet }

RECURSIVE PostLists(_)
PostLists(n) ==
    IF n = 0 THEN {<<>>}
    ELSE PostLists(n - 1)
         \cup {Append(l, t) : l \in {x \in PostLists(n - 1) : Len(x) = n - 1},
                              t \in EstimatePosts}

\* The levels: the three of the data model, another string, another case, a number.
EstimateLevels ==
    { <<"\"high\"">>, <<"\"low\"">>, <<"\"medium\"">>, <<"\"viral\"">>, <<"\"High\"">>,
      <<"1">> }

\* The post lists of the specifications: those of SpecEstimate, and the stored posts of
\* SpecGenerate as generate_post sorts them.
EstimatedLists == PostLists(MaxEstimated) \cup {SortByScore(StoredTweets)}

\* estimate_engagement_body on the levels and the post lists of the specifications,
\* computed once.
EstimatedRanges ==
    [engagement_level \in EstimateLevels, tweets \in EstimatedLists |->
        estimate_engagement_body(engagement_level, tweets)]

\* estimate_engagement(engagement_level, tweets): the value estimate_engagement_body
\* computes, for every level and every list; looked up where it has been computed.
estimate_engagement(engagement_level, tweets) ==
    IF engagement_level \in EstimateLevels /\ tweets \in EstimatedLists
    THEN EstimatedRanges[engagement_level, tweets]
    ELSE estimate_engagement_body(engagement_level, tweets)

\* hashtags = json.loads(hashtags_response), kept only if it is a list.
HashtagsOf(hashtags_response) ==
    IF json_loads(hashtags_response).ok /\ IsList(json_loads(hashtags_response).value)
    THEN json_loads(hashtags_response).value
    ELSE EmptyList

\* The defaults of the fields the result is built from, and none for the other two.
WithSomePostDefaults(d, hashtags, user_location, length) ==
    LET defaults ==
          [ post |-> <<"\"Could not generate post.\"">>,
            hashtags |-> IF Falsy(hashtags) THEN <<LBRACK, "\"ai_tools\"", RBRACK>>
                         ELSE hashtags,
            engagement_prediction |-> <<"\"high\"">> ]
    IN  [k \in DOMAIN d \cup DOMAIN defaults |-> IF k \in DOMAIN d THEN d[k] ELSE defaults[k]]

\* result.setdefault(key, default) for the five fields.
WithPostDefaults(d, hashtags, user_location, length) ==
    LET defaults ==
          [ post |-> <<"\"Could not generate post.\"">>,
            hashtags |-> IF Falsy(hashtags) THEN <<LBRACK, "\"ai_tools\"", RBRACK>>
                         ELSE hashtags,
            best_time |-> get_best_time(user_location, length),
            viral_elements |-> <<LBRACK, "\"emotional appeal\"", COMMA,
                                 "\"provocative question\"", COMMA, "\"challenge\"", RBRACK>>,
            engagement_prediction |-> <<"\"high\"">> ]
    IN  [k \in DOMAIN d \cup DOMAIN defaults |-> IF k \in DOMAIN d THEN d[k] ELSE defaults[k]]

\* {"success": False, "error": str(e)}
GenerationFailed == [success |-> FALSE, error |-> "..."]

\* No user_id is given.
NoUserId == "<None>"

\* The number of llm.invoke calls of generate_post with the raising invocation issued
\* a second time.
LlmCallsRetrying(tweets_file, analysis_file, llm) ==
    LET invocations == IF load_tweets_data(tweets_file) # <<>> THEN 4 ELSE 3
    IN  IF load_data_raises(tweets_file) \/ load_data_raises(analysis_file) THEN 0
        ELSE IF llm.raises_at \in 1..invocations THEN llm.raises_at + 1 ELSE invocations

\* The number of llm.invoke calls generate_post makes: the tone prompt (only when posts
\* are stored), the trending prompt, the hashtags prompt and the final prompt, up to
\* and including the one that raises; none when load_data raises on one of the two
\* files, which are read before the first prompt.
LlmCalls(tweets_file, analysis_file, llm) ==
    LET invocations == IF load_tweets_data(tweets_file) # <<>> THEN 4 ELSE 3
    IN  IF load_data_raises(tweets_file) \/ load_data_raises(analysis_file) THEN 0
        ELSE IF llm.raises_at \in 1..invocations THEN llm.raises_at ELSE invocations

\* generate_post(username, topic, length, user_id) given the stored files and what the
\* model does during the call: llm.raises_at is the invocation that raises (0: none; the
\* call makes 4 invocations when posts are stored, else 3), llm.hashtags the answer to
\* the hashtags prompt, llm.final the answer to the final prompt. The topic is
\* "AI tools". load_data raising on the posts or on the analysis (a file that cannot
\* be read) is caught by the try of generate_post, before any invocation.
generate_post(tweets_file, analysis_file, user_info_file, user_id, length, llm) ==
    LET tweets == SortByScore(load_tweets_data(tweets_file))
        user_info == IF user_id = NoUserId THEN EmptyDict
                     ELSE get_user_info(user_info_file, user_id).user_info
        user_location == IF "location" \in DOMAIN user_info THEN user_info["location"]
                         ELSE "unknown"
        invocations == IF tweets # <<>> THEN 4 ELSE 3
        hashtags == HashtagsOf(llm.hashtags)
        parsed == parse_json_from_response(llm.final)
        unwrapped == IF IsList(parsed) /\ Len(ListToSeq(parsed)) = 1
                     THEN ListToSeq(parsed)[1] ELSE parsed
    IN  IF load_data_raises(tweets_file) \/ load_data_raises(analysis_file)
        THEN GenerationFailed
        ELSE IF llm.raises_at \in 1..invocations THEN GenerationFailed
        ELSE IF ~Falsy(unwrapped) /\ ~IsDict(unwrapped) THEN GenerationFailed
        ELSE LET d == WithPostDefaults(IF Falsy(unwrapped) THEN EmptyDict
                                       ELSE ObjToDict(unwrapped),
                                       hashtags, user_location, length)
                 tags == format_hashtags(d["hashtags"])
                 post == clean_post_text(d["post"])
             IN  IF tags.raised \/ post.raised THEN GenerationFailed
                 ELSE [k \in DOMAIN d \cup {"estimated_metrics", "success"} |->
                         IF k = "success" THEN TRUE
                         ELSE IF k = "estimated_metrics"
                         THEN estimate_engagement(d["engagement_prediction"], tweets)
                         ELSE IF k = "hashtags" THEN tags.value
                         ELSE IF k = "post" THEN post.value
                         ELSE d[k]]

(***************************************************************************)
(* SpecParse: parse_json_from_response applied to bounded model responses. *)
(* A response is a concatenation of at most MaxSegs segments.              *)
(***************************************************************************)
MaxSegs == 3

Segments ==
    { <<PROSE>>,
      <<NL>>,
      <<LBRACE, "\"k\":", "1", RBRACE>>,
      <<LBRACK, LBRACE, "\"k\":", "2", RBRACE, RBRACK>>,
      <<LBRACE, PROSE, RBRACE>>,
      <<FENCE, TAG, NL, LBRACE, "\"j\":", "1", RBRACE, NL, FENCE, NL>>,
      <<FENCE, NL, LBRACE, "\"j\":", "2", RBRACE, NL, FENCE, NL>>,
      <<FENCE, NL, PROSE, NL, FENCE, NL>>,
      <<FENCE, TAG, SP, LBRACE, "\"j\":", "\"s\"", RBRACE, SP, FENCE>> }

RECURSIVE TextsOf(_)
TextsOf(n) ==
    IF n = 0 THEN {<<>>}
    ELSE TextsOf(n - 1) \cup {t \o g : t \in TextsOf(n - 1), g \in Segments}

Responses == TextsOf(MaxSegs)

\* parse_out before the call: a parse never returns the empty sequence.
NotParsed == <<>>

Idle ==
    /\ user_info_files = <<>> /\ tweets_files = <<>> /\ analysis_files = <<>>
    /\ last_saved = <<>> /\ op = NoOp /\ result = <<>> /\ http = NoAnswer
    /\ scrape = NoScrape /\ visits = NoVisits
    /\ requests = NoRequests /\ last_scraped = NoneScraped

InitParse ==
    /\ Idle
    /\ parse_in \in Responses
    /\ parse_out = NotParsed
    /\ dedup_in = <<>> /\ dedup_out = [done |-> FALSE, tweets |-> <<>>]

ParseResponse ==
    /\ parse_out = NotParsed
    /\ parse_out' = parse_json_from_response(parse_in)
    /\ UNCHANGED <<user_info_files, tweets_files, analysis_files, last_saved, op, result,
                   http, scrape, visits, parse_in, dedup_in, dedup_out,
                   requests, last_scraped>>

NextParse == ParseResponse

SpecParse == InitParse /\ [][NextParse]_vars

(***************************************************************************)
(* SpecDedup: _deduplicate_tweets applied to bounded lists of posts.       *)
(***************************************************************************)
MaxPosts == 3

DedupTexts ==
    { <<>>, <<" ">>, <<"a">>, <<"A">>, <<" ", "a">>, <<"A", " ">>, <<"b">>,
      <<"a", " ", "b">>, <<"A", " ", "B", " ">> }

\* Posts as the function reads them: a text, or no "text" key at all.
DedupPosts == {[text |-> t] : t \in DedupTexts} \cup {[likes |-> 0]}

RECURSIVE ListsOf(_, _)
ListsOf(S, n) ==
    IF n = 0 THEN {<<>>}
    ELSE ListsOf(S, n - 1) \cup {Append(l, x) : l \in ListsOf(S, n - 1), x \in S}

\* dedup_out before the call.
NotRun == [done |-> FALSE, tweets |-> <<>>]

InitDedup ==
    /\ Idle
    /\ parse_in = <<>> /\ parse_out = NotParsed
    /\ dedup_in \in ListsOf(DedupPosts, MaxPosts)
    /\ dedup_out = NotRun

Deduplicate ==
    /\ dedup_out = NotRun
    /\ dedup_out' = [done |-> TRUE, tweets |-> deduplicate_tweets(dedup_in)]
    /\ UNCHANGED <<user_info_files, tweets_files, analysis_files, last_saved, op, result,
                   http, scrape, visits, parse_in, parse_out, dedup_in,
                   requests, last_scraped>>

NextDedup == Deduplicate

SpecDedup == InitDedup /\ [][NextDedup]_vars

(***************************************************************************)
(* Claims about _deduplicate_tweets (SpecDedup).                           *)
(***************************************************************************)
\* The positions of the input that hold the first occurrence of a non-empty
\* normalized text.
FirstOccurrences(tweets) ==
    {i \in 1..Len(tweets) :
        /\ NormalizedText(tweets[i]) # <<>>
        /\ \A j \in 1..(i - 1) : NormalizedText(tweets[j]) # NormalizedText(tweets[i])}

\* The subsequence of `tweets` at the positions in I, in input order.
RECURSIVE SubsequenceAt(_, _, _)
SubsequenceAt(tweets, I, i) ==
    IF i > Len(tweets) THEN <<>>
    ELSE IF i \in I THEN <<tweets[i]>> \o SubsequenceAt(tweets, I, i + 1)
    ELSE SubsequenceAt(tweets, I, i + 1)

\* C2: the output is the subsequence of the input made of the first occurrence of
\* every non-empty normalized text, in input order; no two output posts share a
\* normalized text, and every non-empty normalized text of the input is there once.
C2_DedupKeepsFirstOccurrences ==
    dedup_out.done =>
        LET out == dedup_out.tweets
        IN  /\ out = SubsequenceAt(dedup_in, FirstOccurrences(dedup_in), 1)
            /\ \A i, j \in 1..Len(out) :
                   i # j => NormalizedText(out[i]) # NormalizedText(out[j])
            /\ \A i \in 1..Len(dedup_in) :
                   NormalizedText(dedup_in[i]) # <<>> =>
                       Cardinality({k \in 1..Len(out) :
                           NormalizedText(out[k]) = NormalizedText(dedup_in[i])}) = 1

\* C2's case: three posts whose texts differ only in case and outer blanks, around a
\* blank post; only the first survives.
C2_Witness ==
    /\ dedup_in = <<[text |-> <<" ", "a">>], [text |-> <<" ">>], [text |-> <<"A", " ">>]>>
    /\ dedup_out = [done |-> TRUE, tweets |-> <<[text |-> <<" ", "a">>]>>]

(***************************************************************************)
(* Claims about parse_json_from_response (SpecParse).                      *)
(***************************************************************************)
\* A fenced code block of a text, read off the text alone: an opening fence line
\* (the fence, an optional json tag, a newline) at i, a closing fence at j right
\* after a newline, and no fence in between. Its content lies in between.
OpensAt(ts, i) ==
    /\ ts[i] = FENCE
    /\ \/ i + 1 <= Len(ts) /\ ts[i + 1] = NL
       \/ i + 2 <= Len(ts) /\ ts[i + 1] = TAG /\ ts[i + 2] = NL

ContentStart(ts, i) == IF ts[i + 1] = TAG THEN i + 3 ELSE i + 2

IsFencedBlock(ts, i, j) ==
    /\ OpensAt(ts, i)
    /\ j > ContentStart(ts, i)
    /\ ts[j] = FENCE /\ ts[j - 1] = NL
    /\ \A m \in (i + 1)..(j - 1) : ts[m] # FENCE

BlockContent(ts, i, j) == SubSeq(ts, ContentStart(ts, i), j - 2)

IsJsonObject(ts) == json_loads(ts).ok /\ json_loads(ts).value[1] = LBRACE

\* The JSON objects that some fenced code block of the text wraps.
FencedObjects(ts) ==
    {StripWs(BlockContent(ts, i, j)) : <<i, j>> \in
        {b \in (1..Len(ts)) \X (1..Len(ts)) :
            IsFencedBlock(ts, b[1], b[2]) /\ IsJsonObject(BlockContent(ts, b[1], b[2]))}}

\* C4 as claimed: a response that is not JSON itself but holds a JSON object in a
\* fenced code block (tagged or not, with any surrounding prose) parses to exactly
\* that inner object.
C4_AnyFencedObjectIsReturned ==
    (parse_out # NotParsed /\ ~json_loads(parse_in).ok /\ FencedObjects(parse_in) # {})
        => parse_out \in FencedObjects(parse_in)

\* The first opening fence line of the text, and the first closing fence (a newline,
\* then a fence) at or after the content it opens.
FirstOpening(ts) ==
    LET O == {i \in 1..Len(ts) : OpensAt(ts, i)} IN IF O = {} THEN 0 ELSE SetMin(O)

FirstClosingAfter(ts, from) ==
    LET K == {k \in from..(Len(ts) - 1) : ts[k] = NL /\ ts[k + 1] = FENCE}
    IN  IF K = {} THEN 0 ELSE SetMin(K)

HasFirstBlock(ts) ==
    /\ FirstOpening(ts) # 0
    /\ FirstClosingAfter(ts, ContentStart(ts, FirstOpening(ts))) # 0

FirstBlockContent(ts) ==
    SubSeq(ts, ContentStart(ts, FirstOpening(ts)),
           FirstClosingAfter(ts, ContentStart(ts, FirstOpening(ts))) - 1)

\* C4 as amended: a response that is not JSON itself parses to the object of its
\* first fenced code block (the text between the first opening fence line and the
\* next closing fence), whenever that text is a JSON object.
C4_FirstFencedObjectIsReturned ==
    (/\ parse_out # NotParsed
     /\ ~json_loads(parse_in).ok
     /\ HasFirstBlock(parse_in)
     /\ IsJsonObject(FirstBlockContent(parse_in)))
        => parse_out = StripWs(FirstBlockContent(parse_in))

\* C4's case: prose, then a tagged fenced block holding {"j":1}, then prose again,
\* parsed to that object.
C4_Witness ==
    /\ parse_in = <<PROSE, FENCE, TAG, NL, LBRACE, "\"j\":", "1", RBRACE, NL, FENCE, NL, PROSE>>
    /\ parse_out = <<LBRACE, "\"j\":", "1", RBRACE>>

\* The three parsing stages, each on its own: the value a stage yields, or a failure.
StageDirect(ts) == json_loads(ts)

StageCodeBlock(ts) ==
    IF HasFirstBlock(ts) THEN json_loads(FirstBlockContent(ts))
    ELSE [ok |-> FALSE, value |-> <<>>]

StageBracketScan(ts) ==
    LET opens == {i \in 1..Len(ts) :
                    \/ ts[i] = LBRACE /\ \E j \in (i + 1)..Len(ts) : ts[j] = RBRACE
                    \/ ts[i] = LBRACK /\ \E j \in (i + 1)..Len(ts) : ts[j] = RBRACK}
    IN  IF opens = {} THEN [ok |-> FALSE, value |-> <<>>]
        ELSE LET i == SetMin(opens)
                 close == IF ts[i] = LBRACE THEN RBRACE ELSE RBRACK
                 j == SetMax({m \in (i + 1)..Len(ts) : ts[m] = close})
             IN  json_loads(SubSeq(ts, i, j))

\* C5 as claimed: the stages are tried in the order direct parse, fenced code block,
\* bracket scan; the result is that of the first stage that yields JSON (a stage that
\* fails hands over to the next), and the fixed fallback object is returned only when
\* all three have failed.
C5_FirstSuccessfulStageWins ==
    parse_out # NotParsed =>
        LET d == StageDirect(parse_in)
            c == StageCodeBlock(parse_in)
            b == StageBracketScan(parse_in)
        IN  /\ d.ok => parse_out = d.value
            /\ (~d.ok /\ c.ok) => parse_out = c.value
            /\ (~d.ok /\ ~c.ok /\ b.ok) => parse_out = b.value
            /\ parse_out = FallbackObject => (~d.ok /\ ~c.ok /\ ~b.ok)

(***************************************************************************)
(* Spec: the profile and post-generation routes over the stored files.     *)
(***************************************************************************)
Usernames == {"alice", "bob"}

Init ==
    /\ user_info_files = [u \in UserIds |-> NoFile]
    /\ last_saved = [u \in UserIds |-> EmptyDict]
    /\ tweets_files = [n \in Usernames |-> NoFile]
    /\ analysis_files = [n \in Usernames |-> NoFile]
    /\ op = NoOp /\ result = <<>> /\ http = NoAnswer
    /\ scrape = NoScrape /\ visits = NoVisits
    /\ requests = NoRequests /\ last_scraped = NoneScraped
    /\ parse_in = <<>> /\ parse_out = NotParsed
    /\ dedup_in = <<>> /\ dedup_out = NotRun

Next ==
    \/ \E user_id \in UserIds, info \in Infos : SaveUserInfoRoute(user_id, info)
    \/ \E user_id \in UserIds : GetUserInfoRoute(user_id)

Spec == Init /\ [][Next]_vars

(***************************************************************************)
(* SpecGenerate: POST /generate-post/{username} on the stored posts of a   *)
(* scrape, together with the profile routes the generated post reads from. *)
(***************************************************************************)
\* The username as it can stand in the path of /generate-post/{username}, and
\* username.strip("@") of it.
StripAt == ("alice" :> "alice") @@ ("@alice" :> "alice") @@ ("bob" :> "bob")
RouteNames == DOMAIN StripAt

Lengths == {"Medium", "Long"}

\* Answers of the model to the final prompt.
FinalResponses ==
    { <<LBRACE, "\"post\":", "\"**Ship** it\"", COMMA,
        "\"hashtags\":", LBRACK, "\"#AI\"", RBRACK, COMMA,
        "\"engagement_prediction\":", "\"high\"", RBRACE>>,
      <<LBRACK, LBRACE, "\"post\":", "\"**Ship** it\"", RBRACE, RBRACK>>,
      <<LBRACK, "\"1/2 a\"", COMMA, "\"2/2 b\"", RBRACK>>,
      <<LBRACE, "\"post\":", LBRACK, "\"1/2 a\"", COMMA, "\"2/2 b\"", RBRACK, RBRACE>>,
      <<LBRACE, "\"post\":", "1", RBRACE>>,
      <<LBRACE, "\"post\":", "\"Ship it\"", COMMA,
        "\"engagement_prediction\":", "\"viral\"", RBRACE>>,
      <<LBRACE, "\"post\":", "\"Ship it\"", COMMA,
        "\"hashtags\":", LBRACK, "\"#AI\"", COMMA, "\"#\"", RBRACK, RBRACE>>,
      <<LBRACE, "\"hashtags\":", "\"#AI\"", RBRACE>>,
      <<LBRACE, RBRACE>>,
      <<PROSE>>,
      <<FENCE, NL, PROSE, NL, FENCE, NL>> }

\* What the model does during one call: every final answer after a list of hashtags,
\* two of them after hashtags that are no JSON, and an exception at each invocation.
LlmBehaviours ==
    {[raises_at |-> 0, hashtags |-> <<LBRACK, "\"#AI\"", RBRACK>>, final |-> f] :
        f \in FinalResponses}
    \cup {[raises_at |-> 0, hashtags |-> <<PROSE>>, final |-> f] :
             f \in {<<LBRACE, RBRACE>>, <<PROSE>>}}
    \cup {[raises_at |-> k, hashtags |-> <<PROSE>>, final |-> <<PROSE>>] : k \in 1..4}

\* POST /generate-post/{username}
GeneratePostRoute(name, length, user_id, llm) ==
    LET username == StripAt[name]
        tweets == load_tweets_data(tweets_files[username])
        ret == generate_post(tweets_files[username], analysis_files[username],
                             IF user_id = NoUserId THEN NoFile ELSE user_info_files[user_id],
                             user_id, length, llm)
    IN  /\ IF load_data_raises(tweets_files[username])
           THEN \* the exception leaves the handler: the server answers 500
                /\ op' = [name |-> "load_data", path |-> name, username |-> username,
                        invocations |-> 0]
                /\ result' = [raised |-> TRUE]
                /\ http' = [route |-> "generate-post", status |-> 500,
                            detail |-> "Internal Server Error"]
           ELSE IF tweets = <<>>
           THEN /\ op' = [name |-> "load_data", path |-> name, username |-> username,
                        invocations |-> 0]
                /\ result' = [tweets |-> tweets]
                /\ http' = [route |-> "generate-post", status |-> 404,
                            detail |-> "No data found for @" \o username
                                       \o ". Please scrape the profile first."]
           ELSE /\ op' = [name |-> "generate_post", username |-> username,
                          length |-> length, user_id |-> user_id, llm |-> llm,
                          invocations |-> LlmCalls(tweets_files[username],
                                                   analysis_files[username], llm)]
                /\ result' = ret
                /\ http' = IF ret.success THEN HttpOk("generate-post")
                           ELSE HttpError("generate-post", 500, ret, "Failed to generate post")
        /\ UNCHANGED <<user_info_files, tweets_files, analysis_files, last_saved,
                       scrape, visits, parse_in, parse_out, dedup_in, dedup_out,
                       requests, last_scraped>>

\* The profiles saved while posts are generated.
GenerateInfos ==
    { [location |-> "india"], [location |-> "usa"], [profession |-> "poet"],
      [location |-> Unserializable] }

\* alice has been scraped; bob has not, or his file holds no posts, no JSON, or
\* cannot be read.
InitGenerate ==
    /\ user_info_files = [u \in UserIds |-> NoFile]
    /\ last_saved = [u \in UserIds |-> EmptyDict]
    /\ \E bobs \in {NoFile, JsonFile(<<>>), Corrupt, Unreadable} :
          tweets_files = [n \in Usernames |->
                            IF n = "alice" THEN JsonFile(StoredTweets) ELSE bobs]
    /\ analysis_files = [n \in Usernames |->
                            IF n = "alice" THEN JsonFile(fallback_analysis) ELSE NoFile]
    /\ op = NoOp /\ result = <<>> /\ http = NoAnswer
    /\ scrape = NoScrape /\ visits = NoVisits
    /\ requests = NoRequests /\ last_scraped = NoneScraped
    /\ parse_in = <<>> /\ parse_out = NotParsed
    /\ dedup_in = <<>> /\ dedup_out = NotRun

NextGenerate ==
    \/ \E info \in GenerateInfos : SaveUserInfoRoute("u1", info)
    \/ GetUserInfoRoute("u1")
    \/ \E name \in RouteNames, length \in Lengths, user_id \in {NoUserId, "u1"},
          llm \in LlmBehaviours : GeneratePostRoute(name, length, user_id, llm)

SpecGenerate == InitGenerate /\ [][NextGenerate]_vars

(***************************************************************************)
(* Claims about the stored profiles (Spec).                                *)
(***************************************************************************)
\* C1: after any sequence of successful save_user_info calls on a user id, the stored
\* profile maps every key that was ever saved to the value of the latest save that held
\* the key: keys absent from a later save keep their earlier value. A profile file that
\* holds JSON is exactly that key-by-key merge, and a successful save returns it.
C1_ProfileIsKeywiseMerge ==
    /\ \A u \in UserIds :
          /\ user_info_files[u].kind = "json"
                => json_load(user_info_files[u].content) = last_saved[u]
          /\ user_info_files[u].kind = "absent" => last_saved[u] = EmptyDict
    /\ (op.name = "save_user_info" /\ result.success) =>
          /\ result.user_info = last_saved[op.user_id]
          /\ user_info_files[op.user_id] = JsonFile(json_dump(last_saved[op.user_id]))
          /\ \A k \in DOMAIN op.user_info : result.user_info[k] = op.user_info[k]

\* A save of the location alone has succeeded on a profile that already held a
\* profession and another location: the profession is kept, the location is the new one.
C1_Witness ==
    /\ op.name = "save_user_info" /\ result.success
    /\ op.user_info = [location |-> "india"]
    /\ user_info_files[op.user_id] =
          JsonFile(json_dump([location |-> "india", profession |-> "poet"]))

(***************************************************************************)
(* SpecScrape: one scrape of a profile, page load by page load, up to the  *)
(* answer of POST /scrape-profile; PostGenerator.load_tweets on the stored *)
(* posts. The target count is drawn from 0..MaxTweets, so that the pages   *)
(* of the model can reach it.                                              *)
(***************************************************************************)
MaxTweets == 2

\* The tweet elements a loaded page can hold.
Pages ==
    { <<>>,
      <<ElemA>>,
      <<ElemShort, ElemADup, ElemBroken>>,
      <<ElemC, ElemA, ElemADup>>,
      <<ElemNoText, ElemC>> }

\* What the model answers to the analysis prompt.
AnalysisResponses ==
    { LlmRaises,
      <<LBRACE, "\"content_patterns\":", LBRACK, "\"questions\"", RBRACK, COMMA,
        "\"optimal_format\":", "\"one idea per post\"", RBRACE>>,
      <<PROSE>>,
      <<FENCE, NL, PROSE, NL, FENCE, NL>>,
      <<LBRACK, "\"questions\"", RBRACK>> }

\* analyze_tweets was not called, or returned before it invoked the model.
NotInvoked == <<>>

InitScrape ==
    /\ user_info_files = [u \in UserIds |-> NoFile]
    /\ last_saved = [u \in UserIds |-> EmptyDict]
    /\ tweets_files = [n \in Usernames |->
                          IF n = "bob" THEN JsonFile(LegacyTweets) ELSE NoFile]
    /\ analysis_files = [n \in Usernames |-> NoFile]
    /\ op = NoOp /\ result = <<>> /\ http = NoAnswer
    /\ scrape = NoScrape /\ visits = NoVisits
    /\ requests = NoRequests /\ last_scraped = NoneScraped
    /\ parse_in = <<>> /\ parse_out = NotParsed
    /\ dedup_in = <<>> /\ dedup_out = NotRun

\* The scrape after the source it is on has been left with the posts `tweets`: the
\* for loop goes to the next source unless the list is exhausted or
\* len(tweets) >= max_results, and then the browser is closed.
AfterSource(tweets) ==
    IF scrape.source < Len(Sources) /\ Len(tweets) < scrape.max_results
    THEN [scrape EXCEPT !.pc = "attempt", !.source = @ + 1, !.attempt = 0,
                        !.tweets = tweets]
    ELSE [scrape EXCEPT !.pc = "closing", !.tweets = tweets]

\* The history after one more page load on the current source; `exhausted` when the
\* load raises and is the last attempt the source gets.
Visited(raised, exhausted) ==
    [started |-> IF scrape.attempt = 0 THEN Append(visits.started, scrape.source)
                 ELSE visits.started,
     loads |-> visits.loads + 1,
     raised |-> raised,
     failed |-> IF exhausted THEN visits.failed \cup {scrape.source} ELSE visits.failed]

\* A test of the attempt number that never succeeds: every failed attempt is followed
\* by another.
NeverLastAttempt(attempt) == FALSE

\* if attempt == retries: continue
LastAttempt(attempt) == attempt = Retries

\* The source is left without the remaining sources being tried.
GiveUpAfterLastAttempt(tweets) == [scrape EXCEPT !.pc = "closing", !.tweets = tweets]

\* continue, after the last attempt on a source has raised: the attempts are used up and
\* the loop over the sources goes on.
ContinueAfterLastAttempt(tweets) == AfterSource(tweets)

\* scrape_profile returns its failure result and the route answers 500.
ScrapeFails(message) ==
    /\ scrape' = [scrape EXCEPT !.pc = "done"]
    /\ op' = [name |-> "scrape_profile", username |-> scrape.username,
              max_tweets |-> scrape.max_results]
    /\ result' = FailedScrape(message)
    /\ http' = HttpError("scrape-profile", 500, FailedScrape(message), "Unknown error")
    /\ UNCHANGED <<user_info_files, tweets_files, analysis_files, last_saved, visits,
                   parse_in, parse_out, dedup_in, dedup_out, requests, last_scraped>>

\* POST /scrape-profile: scrape_profile calls scrape_with_playwright, which launches
\* the browser and enters the loop over the sources.
StartScrape(username, max_tweets) ==
    /\ scrape.pc = "idle"
    /\ scrape' = IF 0 < max_tweets
                 THEN [pc |-> "attempt", username |-> username, max_results |-> max_tweets,
                       source |-> 1, attempt |-> 0, tweets |-> <<>>]
                 ELSE [pc |-> "closing", username |-> username, max_results |-> max_tweets,
                       source |-> 0, attempt |-> 0, tweets |-> <<>>]
    /\ visits' = NoVisits
    /\ UNCHANGED <<user_info_files, tweets_files, analysis_files, last_saved, op, result,
                   http, parse_in, parse_out, dedup_in, dedup_out, requests, last_scraped>>

\* Launching the browser, the context or the page raises: scrape_profile's except.
LaunchRaises(username, max_tweets) ==
    /\ scrape.pc = "idle"
    /\ scrape' = [pc |-> "done", username |-> username, max_results |-> max_tweets,
                  source |-> 0, attempt |-> 0, tweets |-> <<>>]
    /\ visits' = NoVisits
    /\ op' = [name |-> "scrape_profile", username |-> username, max_tweets |-> max_tweets]
    /\ result' = FailedScrape("Error scraping profile: ...")
    /\ http' = HttpError("scrape-profile", 500, result', "Unknown error")
    /\ UNCHANGED <<user_info_files, tweets_files, analysis_files, last_saved,
                   parse_in, parse_out, dedup_in, dedup_out, requests, last_scraped>>

\* An attempt on the current source raises (page.goto, a wait, a query): after the last
\* attempt the source is left, otherwise the handler pauses before the next attempt.
PageRaises ==
    /\ scrape.pc = "attempt"
    /\ visits' = Visited(TRUE, LastAttempt(scrape.attempt))
    /\ scrape' = IF LastAttempt(scrape.attempt) THEN ContinueAfterLastAttempt(scrape.tweets)
                 ELSE [scrape EXCEPT !.pc = "backoff"]
    /\ UNCHANGED <<user_info_files, tweets_files, analysis_files, last_saved, op, result,
                   http, parse_in, parse_out, dedup_in, dedup_out, requests, last_scraped>>

\* await page.wait_for_timeout(2000) in the handler returns: the next attempt.
BackoffDone ==
    /\ scrape.pc = "backoff"
    /\ scrape' = [scrape EXCEPT !.pc = "attempt", !.attempt = @ + 1]
    /\ UNCHANGED <<user_info_files, tweets_files, analysis_files, last_saved, op, result,
                   http, visits, parse_in, parse_out, dedup_in, dedup_out,
                   requests, last_scraped>>

\* await page.wait_for_timeout(2000) in the handler raises: nothing in
\* scrape_with_playwright catches it, scrape_profile's except does.
BackoffRaises ==
    /\ scrape.pc = "backoff"
    /\ ScrapeFails("Error scraping profile: ...")

\* The page loads and shows the source's error panel, a verification challenge or login
\* prompt (x.com only), or no tweet element before the timeouts: break.
PageBreaks(outcome) ==
    /\ scrape.pc = "attempt"
    /\ outcome \in Outcomes(Sources[scrape.source].type) \ {"raises", "elements"}
    /\ visits' = Visited(FALSE, FALSE)
    /\ scrape' = AfterSource(scrape.tweets)
    /\ UNCHANGED <<user_info_files, tweets_files, analysis_files, last_saved, op, result,
                   http, parse_in, parse_out, dedup_in, dedup_out, requests, last_scraped>>

\* The page loads and holds tweet elements: the extraction loop, then break.
PageYields(tweet_elements) ==
    /\ scrape.pc = "attempt"
    /\ visits' = Visited(FALSE, FALSE)
    /\ scrape' = AfterSource(ExtractLoop(scrape.tweets, tweet_elements, 0,
                                         scrape.max_results,
                                         Sources[scrape.source].type, scrape.username))
    /\ UNCHANGED <<user_info_files, tweets_files, analysis_files, last_saved, op, result,
                   http, parse_in, parse_out, dedup_in, dedup_out, requests, last_scraped>>

\* browser.close() raises: the collected list is never returned.
CloseRaises ==
    /\ scrape.pc = "closing"
    /\ ScrapeFails("Error scraping profile: ...")

\* browser.close() returns, scrape_with_playwright returns the list, scrape_profile
\* finishes and the route answers.
FinishScrape(llm, tweets_write, analysis_write) ==
    /\ scrape.pc = "closing"
    /\ LET n == scrape.username
           r == scrape_profile(n, scrape.tweets, tweets_files[n], analysis_files[n],
                               llm, tweets_write, analysis_write)
       IN  /\ tweets_files' = [tweets_files EXCEPT ![n] = r.tweets_file]
           /\ analysis_files' = [analysis_files EXCEPT ![n] = r.analysis_file]
           /\ result' = r.ret
           /\ http' = IF r.ret.success THEN HttpOk("scrape-profile")
                      ELSE HttpError("scrape-profile", 500, r.ret, "Unknown error")
    /\ scrape' = [scrape EXCEPT !.pc = "done"]
    /\ op' = [name |-> "scrape_profile", username |-> scrape.username,
              max_tweets |-> scrape.max_results,
              analysis_response |-> IF scrape.tweets = <<>> THEN NotInvoked ELSE llm]
    /\ UNCHANGED <<user_info_files, last_saved, visits,
                   parse_in, parse_out, dedup_in, dedup_out, requests, last_scraped>>

\* PostGenerator.load_tweets(username), between scrapes.
LoadTweets(username) ==
    /\ scrape.pc \in {"idle", "done"}
    /\ op' = [name |-> "load_tweets", username |-> username]
    /\ result' = load_tweets(tweets_files[username])
    /\ http' = NoAnswer
    /\ UNCHANGED <<user_info_files, tweets_files, analysis_files, last_saved, scrape,
                   visits, parse_in, parse_out, dedup_in, dedup_out, requests, last_scraped>>

NextScrape ==
    \/ \E username \in Usernames, max_tweets \in 0..MaxTweets :
          StartScrape(username, max_tweets)
    \/ \E username \in Usernames, max_tweets \in 0..MaxTweets :
          LaunchRaises(username, max_tweets)
    \/ PageRaises
    \/ BackoffDone
    \/ BackoffRaises
    \/ \E outcome \in {"error", "challenge", "no_tweets"} : PageBreaks(outcome)
    \/ \E tweet_elements \in Pages : PageYields(tweet_elements)
    \/ CloseRaises
    \/ \E llm \in AnalysisResponses, tweets_write \in WriteOutcomes,
          analysis_write \in WriteOutcomes :
          FinishScrape(llm, tweets_write, analysis_write)
    \/ \E username \in Usernames : LoadTweets(username)

SpecScrape == InitScrape /\ [][NextScrape]_vars

(***************************************************************************)
(* Claims about the scraper (SpecScrape).                                  *)
(***************************************************************************)
\* likes + 2 * retweets + 0.5 * replies of a post's own counters, in half units.
ScraperScore(post) == 2 * post.likes + 4 * post.retweets + post.replies

\* likes + 2 * retweets of a stored post's counters (0 for a missing one), in half units.
LoaderScore(post) == 2 * (GetOr0(post, "likes") + 2 * GetOr0(post, "retweets"))

\* The members of a list.
PostsOf(list) == {list[i] : i \in 1..Len(list)}

\* C3: every post carries engagement_score = likes + 2 * retweets, plus 0.5 * replies in
\* the scraper variant. It holds for every post scrape_with_playwright has built (in the
\* list being collected, in the result of scrape_profile and in the stored file), and for
\* every post load_tweets returns: a stored post without a score gets
\* likes + 2 * retweets, a post stored by the scraper keeps the scraper's score.
C3_EngagementScoreFormula ==
    /\ \A post \in PostsOf(scrape.tweets) : post.engagement_score = ScraperScore(post)
    /\ (op.name = "scrape_profile" /\ result.success) =>
          /\ \A post \in PostsOf(result.tweets) \cup PostsOf(result.sample_tweets) :
                post.engagement_score = ScraperScore(post)
          /\ tweets_files[op.username].kind = "json" =>
                \A post \in PostsOf(tweets_files[op.username].content) :
                    "engagement_score" \in DOMAIN post =>
                        post.engagement_score = ScraperScore(post)
    /\ (op.name = "load_tweets" /\ ~result.raised) =>
          LET stored == load_tweets_data(tweets_files[op.username])
          IN  /\ Len(result.tweets) = Len(stored)
              /\ \A i \in 1..Len(stored) :
                    /\ "engagement_score" \in DOMAIN result.tweets[i]
                    /\ result.tweets[i].engagement_score =
                          IF "engagement_score" \in DOMAIN stored[i]
                          THEN ScraperScore(stored[i])
                          ELSE LoaderScore(stored[i])

\* load_tweets has returned stored posts that had no score, one of them with replies and
\* one without a likes counter, after a scrape that built a post with replies.
C3_Witness ==
    /\ op.name = "load_tweets" /\ ~result.raised
    /\ \E i \in 1..Len(result.tweets) :
          /\ "engagement_score" \notin DOMAIN tweets_files[op.username].content[i]
          /\ "likes" \notin DOMAIN result.tweets[i]
          /\ result.tweets[i].engagement_score = 8
    /\ \E post \in PostsOf(result.tweets) :
          GetOr0(post, "replies") > 0 /\ post.engagement_score = LoaderScore(post)
    /\ \E post \in PostsOf(scrape.tweets) : post.replies > 0 /\ post.engagement_score = 12

\* The urls of the sources in the order the scrape has to visit them.
SourceOrder ==
    << "https://x.com/{username}", "https://nitter.net/{username}",
       "https://nitter.tiekoetter.com/{username}" >>

InLoop == scrape.pc \in {"attempt", "backoff"}

\* C6: a scrape visits the sources in the order x.com, nitter.net, nitter.tiekoetter.com
\* and finishes all attempts on one source before it starts the next; it never starts
\* (or goes on with) a source once the number of collected posts has reached the target
\* count; the list it holds, and returns, never has more posts than the target count.
C6_SourcesInOrderUpToTarget ==
    /\ Len(visits.started) <= Len(SourceOrder)
    /\ \A i \in 1..Len(visits.started) :
          visits.started[i] = i /\ Sources[visits.started[i]].url = SourceOrder[i]
    /\ InLoop =>
          /\ Len(scrape.tweets) < scrape.max_results
          /\ scrape.source = IF scrape.pc = "attempt" /\ scrape.attempt = 0
                             THEN Len(visits.started) + 1
                             ELSE visits.started[Len(visits.started)]
    /\ scrape.pc # "idle" =>
          /\ Len(scrape.tweets) <= scrape.max_results
          /\ (Len(scrape.tweets) = scrape.max_results /\ visits.started # <<>>) =>
                scrape.source = visits.started[Len(visits.started)]
    /\ (op.name = "scrape_profile" /\ result.success) =>
          result.tweet_count <= op.max_tweets

\* A scrape for two posts has ended after x.com and nitter.net: the second source filled
\* the list up to the target and the third source was never started.
C6_Witness ==
    /\ scrape.pc = "done" /\ op.name = "scrape_profile" /\ result.success
    /\ scrape.max_results = 2 /\ Len(scrape.tweets) = 2
    /\ visits.started = <<1, 2>>
    /\ scrape.tweets[1].id = <<"101">> /\ scrape.tweets[2].id = <<"102">>

\* C7: within one scrape each source is attempted at most 3 times (Retries + 1); a
\* further attempt on a source is made only after the previous attempt raised, so an
\* attempt that did not raise (it completed, or ended on an error panel, a challenge or
\* a page without posts) is never repeated; a scrape loads at most 9 pages, and after
\* the ninth the loop over the sources is over.
C7_AtMostThreeAttemptsPerSource ==
    /\ scrape.attempt \in 0..Retries
    /\ visits.loads <= (Retries + 1) * Len(visits.started)
    /\ visits.loads <= 9
    /\ (scrape.pc = "backoff" \/ (scrape.pc = "attempt" /\ scrape.attempt > 0)) =>
          visits.raised
    /\ (visits.loads > 0 /\ ~visits.raised /\ InLoop) =>
          scrape.attempt = 0 /\ scrape.source > visits.started[Len(visits.started)]
    /\ visits.loads = 9 => ~InLoop

\* Every attempt on every source has raised: nine page loads, and the scrape is over.
C7_Witness ==
    /\ visits.loads = 9 /\ visits.failed = {1, 2, 3}
    /\ scrape.pc = "done" /\ op.name = "scrape_profile"

IsPrefix(s, t) == Len(s) <= Len(t) /\ SubSeq(t, 1, Len(s)) = s

C9_ZeroPostsIsFailure ==
    (op.name = "scrape_profile" /\ scrape.pc = "done" /\ scrape.tweets = <<>>) =>
        /\ result.success = FALSE
        /\ result.tweet_count = 0 /\ result.top_tweets_count = 0
        /\ result.performance_analysis = EmptyDict
        /\ result.sample_tweets = <<>> /\ result.tweets = <<>>
        /\ "message" \in DOMAIN result
        /\ http.route = "scrape-profile" /\ http.status >= 400 /\ http.status # 200
        /\ http.detail = result.message

\* All three sources have been visited, none gave a post, and the route answered 500.
C9_Witness ==
    /\ op.name = "scrape_profile" /\ scrape.pc = "done"
    /\ visits.started = <<1, 2, 3>> /\ scrape.tweets = <<>>
    /\ result.message = "No tweets found" /\ http.status = 500

(***************************************************************************)
(* Claims about the results of the public operations (SpecGenerate).       *)
(***************************************************************************)
\* C10: no public operation lets an exception escape; every internal failure is turned
\* into a result with success false and a message field that describes the failure.
\* As stated for the operations of SpecGenerate: a result of save_user_info,
\* get_user_info or generate_post that is no success holds a message.
C10_FailuresCarryMessage ==
    (op.name \in {"save_user_info", "get_user_info", "generate_post"} /\ ~result.success)
        => "message" \in DOMAIN result

\* C11: for every endpoint a result that is no success is never answered with HTTP 200:
\* the answer is a 4xx/5xx that carries the failure message the operation produced.
\* As stated for the endpoints of SpecGenerate: the status is an error status and the
\* detail is the message of the result.
C11_FailureAnsweredWithItsMessage ==
    (op.name \in {"save_user_info", "get_user_info", "generate_post"} /\ ~result.success)
        => /\ http.status >= 400
           /\ "message" \in DOMAIN result
           /\ http.detail = result.message

\* The final answer holds no JSON that parses: parse_json_from_response has fallen back
\* to one of its two fixed objects.
NoParseableJson(final) == parse_json_from_response(final) \in {FallbackObject, ErrorObject}

PostFields == {"post", "hashtags", "best_time", "viral_elements", "engagement_prediction"}

NoParseableObject(response) ==
    \/ parse_json_from_response(response) \in {FallbackObject, ErrorObject}
    \/ ~IsDict(parse_json_from_response(response))

\* C13: when the answer of the model to the analysis prompt holds no parseable JSON
\* object, analyze_tweets returns and stores the fixed heuristic fallback analysis with
\* success true, and the parse error appears neither in the returned nor in the stored
\* analysis.
C13_UnparseableAnalysisYieldsFallback ==
    (/\ op.name = "scrape_profile" /\ result.success
     /\ op.analysis_response \notin {NotInvoked, LlmRaises}
     /\ NoParseableObject(op.analysis_response))
        => /\ result.performance_analysis = fallback_analysis
           /\ analysis_files[op.username].kind = "json"
                => analysis_files[op.username].content = fallback_analysis

(***************************************************************************)
(* Claims about the generated post (SpecGenerate).                         *)
(***************************************************************************)
EngagementLevels == {<<"\"low\"">>, <<"\"medium\"">>, <<"\"high\"">>}

\* C14: in every result of generate_post with success true, engagement_prediction is
\* one of the three values low, medium, high.
C14_PredictionIsLowMediumOrHigh ==
    (op.name = "generate_post" /\ result.success)
        => result.engagement_prediction \in EngagementLevels

(***************************************************************************)
(* SpecEstimate: estimate_engagement as a pure function, applied to a      *)
(* level and to a list of at most MaxEstimated stored posts.               *)
(***************************************************************************)
InitEstimate ==
    /\ user_info_files = [u \in UserIds |-> NoFile]
    /\ last_saved = [u \in UserIds |-> EmptyDict]
    /\ tweets_files = [n \in Usernames |-> NoFile]
    /\ analysis_files = [n \in Usernames |-> NoFile]
    /\ op = NoOp /\ result = <<>> /\ http = NoAnswer
    /\ scrape = NoScrape /\ visits = NoVisits
    /\ requests = NoRequests /\ last_scraped = NoneScraped
    /\ parse_in = <<>> /\ parse_out = NotParsed
    /\ dedup_in = <<>> /\ dedup_out = NotRun

EstimateEngagement(engagement_level, tweets) ==
    /\ op' = [name |-> "estimate_engagement", engagement_level |-> engagement_level,
              tweets |-> tweets]
    /\ result' = estimate_engagement(engagement_level, tweets)
    /\ UNCHANGED <<user_info_files, tweets_files, analysis_files, last_saved, http,
                   scrape, visits, parse_in, parse_out, dedup_in, dedup_out,
                   requests, last_scraped>>

NextEstimate ==
    \E engagement_level \in EstimateLevels, tweets \in PostLists(MaxEstimated) :
        EstimateEngagement(engagement_level, tweets)

SpecEstimate == InitEstimate /\ [][NextEstimate]_vars

(***************************************************************************)
(* Claims about estimate_engagement (SpecEstimate).                        *)
(***************************************************************************)
RangeKeys == {"likes", "retweets", "views"}

DefaultOf == [likes |-> DefaultLikes, retweets |-> DefaultRetweets, views |-> DefaultViews]

\* The posts of a list whose counter is positive, by position.
PositiveAt(tweets, key) == {i \in 1..Len(tweets) : GetOr0(tweets[i], key) > 0}

RECURSIVE SumOver(_, _, _)
SumOver(tweets, key, S) ==
    IF S = {} THEN 0
    ELSE LET i == CHOOSE x \in S : TRUE
         IN  GetOr0(tweets[i], key) + SumOver(tweets, key, S \ {i})

\* The base of a range as a fraction [p, q]: the average of the counter over the posts
\* where it is positive, or the default when it is positive nowhere.
BaseOf(tweets, key) ==
    IF PositiveAt(tweets, key) = {} THEN [p |-> DefaultOf[key], q |-> 1]
    ELSE [p |-> SumOver(tweets, key, PositiveAt(tweets, key)),
          q |-> Cardinality(PositiveAt(tweets, key))]

\* The integers nearest to p / d (two of them when p / d lies half-way).
Nearest(p, d) == {t \in {p \div d, p \div d + 1} : 2 * t * d - 2 * p \in (0 - d)..d}

\* The texts a bound of the exact value p / q can be shown as, each with the number it
\* stands for: truncated to an integer below 1000, with one decimal in K or M from
\* there on. The bound is computed in binary floating point, where a product that is
\* an integer exactly can come out just below it: an integer bound can be shown one
\* lower (at 1000 and 1000000 still in the notation of the smaller numbers).
Shows(p, q) ==
    (IF p >= 1000000 * q
     THEN {[text |-> OneDecimal(t) \o "M", value |-> t * 100000] : t \in Nearest(p, 100000 * q)}
     ELSE IF p >= 1000 * q
     THEN {[text |-> OneDecimal(t) \o "K", value |-> t * 100] : t \in Nearest(p, 100 * q)}
     ELSE {[text |-> ToString(p \div q), value |-> p \div q]})
    \cup (IF p % q = 0 /\ p >= q /\ p <= 1000 * q
          THEN {[text |-> ToString(p \div q - 1), value |-> p \div q - 1]} ELSE {})
    \cup (IF p = 1000000 * q THEN {[text |-> "1000.0K", value |-> 1000000]} ELSE {})

\* The text is a range low-high with low <= high, from 0.7 to 1.3 times
\* base * halves / 2.
IsRangeAround(text, base, halves) ==
    \E low \in Shows(7 * halves * base.p, 20 * base.q),
       high \in Shows(13 * halves * base.p, 20 * base.q) :
        /\ text = low.text \o "-" \o high.text
        /\ low.value <= high.value

\* The factor of a level, in halves, as the claim words it: 1.5 for high, 0.5 for low,
\* 1.0 for any other level.
FactorOfAnyLevel(engagement_level) ==
    IF engagement_level \in {<<"\"high\"">>, <<"\"High\"">>} THEN 3
    ELSE IF engagement_level = <<"\"low\"">> THEN 1
    ELSE 2

\* C15 as stated: three ranges low-high; for a non-empty list each is 0.7x to 1.3x of
\* the base times the level factor, 1.0 for any level other than high and low; for an
\* empty list the fixed ranges.
C15_RangesForAnyLevel ==
    op.name = "estimate_engagement"
        => /\ DOMAIN result = RangeKeys
           /\ op.tweets = <<>> => result = FixedRanges
           /\ op.tweets # <<>> =>
                \A key \in RangeKeys :
                    IsRangeAround(result[key], BaseOf(op.tweets, key),
                                  FactorOfAnyLevel(op.engagement_level))

\* C15, amended: the factor applies to a level that is a string (compared without
\* regard to case); a level that is no string yields the fixed ranges, as an empty list
\* does. Each bound is truncated to an integer below 1000 and shown in K or M with one
\* decimal from there on, in binary floating point (a bound that is an integer exactly
\* can be shown one lower), and the shown low is never above the shown high.
C15_RangesForStringLevels ==
    op.name = "estimate_engagement"
        => /\ DOMAIN result = RangeKeys
           /\ (op.tweets = <<>> \/ ~IsString(op.engagement_level)) => result = FixedRanges
           /\ (op.tweets # <<>> /\ IsString(op.engagement_level)) =>
                \A key \in RangeKeys :
                    IsRangeAround(result[key], BaseOf(op.tweets, key),
                                  FactorOfAnyLevel(op.engagement_level))

\* Two posts at level low, one of them with no positive counter: the averages are
\* taken over the other alone (likes 3: "1-1", views 40: "14-26").
C15_Witness ==
    /\ op.name = "estimate_engagement"
    /\ op.engagement_level = <<"\"low\"">>
    /\ Len(op.tweets) = 2
    /\ \E i \in 1..2 : GetOr0(op.tweets[i], "likes") = 0
    /\ result.likes = "1-1"
    /\ result.views = "14-26"

(***************************************************************************)
(* SpecRace: two requests for one key in the service at the same time.     *)
(* main.py runs the application in one uvicorn process, and every route is *)
(* an async def: the handlers run on one event loop and hand over to each  *)
(* other only where they await. save_user_info awaits nowhere;             *)
(* scrape_profile awaits scrape_with_playwright and nothing after it.      *)
(***************************************************************************)
RaceInfos == { [location |-> "india"], [profession |-> "poet"], [location |-> "poet"] }

\* What scrape_with_playwright can return on for alice.
RaceLists ==
    { <<>>,
      <<BuildTweet(ElemA, 0, "nitter", "alice")>>,
      <<BuildTweet(ElemC, 0, "nitter", "alice"), BuildTweet(ElemA, 1, "nitter", "alice")>> }

RaceResponses ==
    { LlmRaises,
      <<LBRACE, "\"content_patterns\":", LBRACK, "\"questions\"", RBRACK, RBRACE>> }

RequestIds == {1, 2}

SaveRequest(user_id, info) ==
    [kind |-> "save", key |-> user_id, pc |-> "received", finished |-> 0, info |-> info]

ScrapeRequest(username) ==
    [kind |-> "scrape", key |-> username, pc |-> "received", finished |-> 0,
     tweets |-> <<>>, llm |-> NotInvoked, tweets_write |-> "written",
     analysis_write |-> "written"]

\* The stored files before either request.
FilesBefore ==
    [ user_info |-> [u \in UserIds |-> NoFile],
      tweets |-> [n \in Usernames |-> NoFile],
      analysis |-> [n \in Usernames |-> NoFile] ]

InitRace ==
    /\ user_info_files = FilesBefore.user_info
    /\ tweets_files = FilesBefore.tweets
    /\ analysis_files = FilesBefore.analysis
    /\ last_saved = [u \in UserIds |-> EmptyDict]
    /\ op = NoOp /\ result = <<>> /\ http = NoAnswer
    /\ scrape = NoScrape /\ visits = NoVisits
    /\ parse_in = <<>> /\ parse_out = NotParsed
    /\ dedup_in = <<>> /\ dedup_out = NotRun
    /\ last_scraped = NoneScraped
    /\ \/ \E i1 \in RaceInfos, i2 \in RaceInfos :
            requests = <<SaveRequest("u1", i1), SaveRequest("u1", i2)>>
       \/ requests = <<ScrapeRequest("alice"), ScrapeRequest("alice")>>

\* How many of the two requests have been answered.
Finished == Cardinality({i \in RequestIds : requests[i].pc = "done"})

\* The file as it was before either request ran.
FileAtArrival(file) == NoFile

\* The file a handler finds: nothing runs between a handler's read of a file and its
\* write, so it is the file as the handler that ran before left it.
FileFound(file) == file

\* The handler of POST /save-user-info/{user_id} runs from its first line to its answer.
HandleSave(i) ==
    /\ requests[i].kind = "save" /\ requests[i].pc = "received"
    /\ LET user_id == requests[i].key
           r == save_user_info(FileFound(user_info_files[user_id]), user_id, requests[i].info)
       IN  /\ user_info_files' = [user_info_files EXCEPT ![user_id] = r.file]
           /\ op' = [name |-> "save_user_info", user_id |-> user_id,
                     user_info |-> requests[i].info]
           /\ result' = r.ret
           /\ http' = IF r.ret.success THEN HttpOk("save-user-info")
                      ELSE HttpError("save-user-info", 500, r.ret, "Unknown error")
    /\ requests' = [requests EXCEPT ![i].pc = "done", ![i].finished = Finished + 1]
    /\ UNCHANGED <<tweets_files, analysis_files, last_saved, scrape, visits,
                   parse_in, parse_out, dedup_in, dedup_out, last_scraped>>

\* The handler of POST /scrape-profile runs up to await self.scrape_with_playwright(...)
\* and the event loop takes over.
EnterScrape(i) ==
    /\ requests[i].kind = "scrape" /\ requests[i].pc = "received"
    /\ requests' = [requests EXCEPT ![i].pc = "scraping"]
    /\ UNCHANGED <<user_info_files, tweets_files, analysis_files, last_saved, op, result,
                   http, scrape, visits, parse_in, parse_out, dedup_in, dedup_out,
                   last_scraped>>

\* scrape_with_playwright returns on a list, and scrape_profile runs from there to its
\* answer: both files are written, and the model is invoked, without another await.
ReturnFromScrape(i, tweets, llm, tweets_write, analysis_write) ==
    /\ requests[i].kind = "scrape" /\ requests[i].pc = "scraping"
    /\ LET n == requests[i].key
           r == scrape_profile(n, tweets, FileFound(tweets_files[n]),
                               FileFound(analysis_files[n]), llm, tweets_write,
                               analysis_write)
       IN  /\ tweets_files' = [tweets_files EXCEPT ![n] = r.tweets_file]
           /\ analysis_files' = [analysis_files EXCEPT ![n] = r.analysis_file]
           /\ op' = [name |-> "scrape_profile", username |-> n, max_tweets |-> 20,
                     analysis_response |-> IF tweets = <<>> THEN NotInvoked ELSE llm]
           /\ result' = r.ret
           /\ http' = IF r.ret.success THEN HttpOk("scrape-profile")
                      ELSE HttpError("scrape-profile", 500, r.ret, "Unknown error")
    /\ requests' = [requests EXCEPT ![i].pc = "done", ![i].finished = Finished + 1,
                                    ![i].tweets = tweets, ![i].llm = llm,
                                    ![i].tweets_write = tweets_write,
                                    ![i].analysis_write = analysis_write]
    /\ UNCHANGED <<user_info_files, last_saved, scrape, visits,
                   parse_in, parse_out, dedup_in, dedup_out, last_scraped>>

NextRace ==
    \/ \E i \in RequestIds : HandleSave(i)
    \/ \E i \in RequestIds : EnterScrape(i)
    \/ \E i \in RequestIds, tweets \in RaceLists, llm \in RaceResponses,
          tweets_write \in WriteOutcomes, analysis_write \in WriteOutcomes :
          ReturnFromScrape(i, tweets, llm, tweets_write, analysis_write)

\* The event loop runs every handler that can run; page loads time out.
SpecRace == InitRace /\ [][NextRace]_vars /\ WF_vars(NextRace)

(***************************************************************************)
(* Claims about concurrent requests (SpecRace).                            *)
(***************************************************************************)
StoredFiles ==
    [user_info |-> user_info_files, tweets |-> tweets_files, analysis |-> analysis_files]

\* The files after a request has run alone on the given files, with what it was given.
AfterAlone(files, request) ==
    IF request.kind = "save"
    THEN [files EXCEPT !.user_info[request.key] =
            save_user_info(files.user_info[request.key], request.key, request.info).file]
    ELSE LET r == scrape_profile(request.key, request.tweets, files.tweets[request.key],
                                 files.analysis[request.key], request.llm,
                                 request.tweets_write, request.analysis_write)
         IN  [files EXCEPT !.tweets[request.key] = r.tweets_file,
                           !.analysis[request.key] = r.analysis_file]

\* The files after the two requests have run one after the other.
SerialOrder(first, second) ==
    AfterAlone(AfterAlone(FilesBefore, requests[first]), requests[second])

BothAnswered == \A i \in RequestIds : requests[i].pc = "done"

\* C16 as stated: no lock serializes concurrent requests for one key, and some
\* interleaving of two save-user-info requests for one user id, or of two scrape-profile
\* requests for one username, ends in a stored state that is the result of neither
\* serial order.
C16_SomeInterleavingIsNotSerial ==
    <>(BothAnswered /\ StoredFiles \notin {SerialOrder(1, 2), SerialOrder(2, 1)})

\* C16, amended: no lock serializes the requests, but on the one event loop the service
\* runs on a handler's file accesses are not interleaved with another handler's; once
\* both requests are answered the stored state is that of the serial order in which the
\* handlers finished.
C16_StoredStateIsOfTheOrderFinished ==
    BothAnswered =>
        \E first \in RequestIds, second \in RequestIds :
            /\ requests[first].finished = 1 /\ requests[second].finished = 2
            /\ StoredFiles = SerialOrder(first, second)

\* Both scrapes were waiting for pages at the same time; the one that was received
\* second finished first and the other overwrote its posts.
C16_Witness ==
    /\ BothAnswered
    /\ requests[1].kind = "scrape"
    /\ requests[1].finished = 2
    /\ requests[1].tweets # <<>> /\ requests[2].tweets # <<>>
    /\ requests[1].tweets # requests[2].tweets
    /\ tweets_files["alice"].kind = "json"

(***************************************************************************)
(* SpecStore: scrape-profile and save-user-info requests one after the     *)
(* other, for two usernames and two user ids. A scrape is one step here:   *)
(* the list scrape_with_playwright returns on is drawn from the lists      *)
(* SpecScrape builds page by page.                                         *)
(***************************************************************************)
\* What scrape_with_playwright can return on for a username: nothing, one post, or
\* three posts that are not in score order and hold one text twice (one post for a
\* username that holds a path segment).
StoreLists(username) ==
    IF username \notin Usernames
    THEN { <<BuildTweet(ElemA, 0, "nitter", username)>> }
    ELSE { <<>>,
           <<BuildTweet(ElemA, 0, "nitter", username)>>,
           <<BuildTweet(ElemC, 0, "nitter", username), BuildTweet(ElemA, 1, "nitter", username),
             BuildTweet(ElemADup, 2, "nitter", username)>> }

StoreResponses ==
    { LlmRaises,
      <<LBRACE, "\"content_patterns\":", LBRACK, "\"questions\"", RBRACK, RBRACE>> }

StoreInfos == { [location |-> "india"] }

\* How the two writes of a scrape can go: both, or one of them fails.
StoreWrites ==
    { <<"written", "written">>, <<"open raises", "written">>, <<"written", "open raises">> }

NeverScraped == [scraped |-> FALSE, tweets |-> <<>>]

\* The usernames a scrape-profile request can carry: the body of the request is not
\* validated, so a username can hold path segments.
ScrapeNames == Usernames \cup {"./alice"}

\* For every username a request can carry, the lists its scrape can return.
StoreListsOf == [n \in ScrapeNames |-> StoreLists(n)]

InitStore ==
    /\ user_info_files = [u \in UserIds |-> NoFile]
    /\ last_saved = [u \in UserIds |-> EmptyDict]
    /\ tweets_files = [n \in Usernames |-> NoFile]
    /\ analysis_files = [n \in Usernames |-> NoFile]
    /\ op = NoOp /\ result = <<>> /\ http = NoAnswer
    /\ scrape = NoScrape /\ visits = NoVisits
    /\ parse_in = <<>> /\ parse_out = NotParsed
    /\ dedup_in = <<>> /\ dedup_out = NotRun
    /\ requests = NoRequests
    /\ last_scraped = [n \in ScrapeNames |-> NeverScraped]

\* filename = os.path.join(self.data_dir, f"{username}_{data_type}.json"): the file the
\* path names. The username goes into the path as the request gave it, and a leading
\* "./" names the data directory itself.
DataFileOf(username) == IF username = "./alice" THEN "alice" ELSE username

\* POST /scrape-profile {username}, from the request to the answer.
ScrapeProfileRoute(username, tweets, llm, tweets_write, analysis_write) ==
    LET f == DataFileOf(username)
        r == scrape_profile(username, tweets, tweets_files[f], analysis_files[f],
                            llm, tweets_write, analysis_write)
    IN  /\ tweets_files' = [tweets_files EXCEPT ![f] = r.tweets_file]
        /\ analysis_files' = [analysis_files EXCEPT ![f] = r.analysis_file]
        /\ last_scraped' = IF r.ret.success
                           THEN [last_scraped EXCEPT ![username] =
                                    [scraped |-> TRUE, tweets |-> tweets]]
                           ELSE last_scraped
        /\ op' = [name |-> "scrape_profile", username |-> username, max_tweets |-> 20,
                  analysis_response |-> IF tweets = <<>> THEN NotInvoked ELSE llm]
        /\ result' = r.ret
        /\ http' = IF r.ret.success THEN HttpOk("scrape-profile")
                   ELSE HttpError("scrape-profile", 500, r.ret, "Unknown error")
        /\ UNCHANGED <<user_info_files, last_saved, scrape, visits,
                       parse_in, parse_out, dedup_in, dedup_out, requests>>

\* POST /scrape-profile {username} when scrape_with_playwright raises.
ScrapeProfileRaises(username) ==
    /\ op' = [name |-> "scrape_profile", username |-> username, max_tweets |-> 20,
              analysis_response |-> NotInvoked]
    /\ result' = FailedScrape("Error scraping profile: ...")
    /\ http' = HttpError("scrape-profile", 500, FailedScrape("Error scraping profile: ..."),
                         "Unknown error")
    /\ UNCHANGED <<user_info_files, tweets_files, analysis_files, last_saved, scrape,
                   visits, parse_in, parse_out, dedup_in, dedup_out, requests,
                   last_scraped>>

NextStore ==
    \/ \E username \in ScrapeNames, llm \in StoreResponses, writes \in StoreWrites :
          \E tweets \in StoreListsOf[username] :
              ScrapeProfileRoute(username, tweets, llm, writes[1], writes[2])
    \/ \E username \in ScrapeNames : ScrapeProfileRaises(username)
    \/ \E user_id \in UserIds, info \in StoreInfos : SaveUserInfoRoute(user_id, info)

SpecStore == InitStore /\ [][NextStore]_vars

(***************************************************************************)
(* Claims about the stored documents (SpecStore).                          *)
(***************************************************************************)
\* C17: stored posts are written as a whole, the last writer wins: after any sequence
\* of scrape-profile operations for a username the stored posts are exactly the
\* deduplicated, score-ordered posts of the latest scrape that completed with success;
\* posts of earlier scrapes are neither merged in nor left behind.
C17_StoredPostsAreOfLatestSuccessfulScrape ==
    \A n \in Usernames :
        last_scraped[n].scraped
            => tweets_files[n]
                 = JsonFile(SortByScore(deduplicate_tweets(last_scraped[n].tweets)))

(***************************************************************************)
(* Claims about a generate-post for a username without stored posts        *)
(* (SpecGenerate).                                                         *)
(***************************************************************************)
\* The file of a username holds no posts: it is missing, holds an empty list, holds no
\* JSON, or cannot be read.
NoStoredPosts(file) == file.kind # "json" \/ file.content = <<>>

ScrapeFirst(username) == "No data found for @" \o username \o ". Please scrape the profile first."

\* C18: a generate-post request for a username that has no stored posts (never scraped,
\* or a stored file that is empty or unreadable) is answered with HTTP 404 telling the
\* caller to scrape the profile first, and no model invocation is made.
C18_NoStoredPostsAnswered404 ==
    (/\ op.name \in {"load_data", "generate_post"}
     /\ NoStoredPosts(tweets_files[op.username]))
        => /\ http.route = "generate-post"
           /\ http.status = 404
           /\ http.detail = ScrapeFirst(op.username)
           /\ op.invocations = 0

\* The part of C18 that the unreadable file leaves standing: without stored posts the
\* model is never invoked, and a file that load_data can read as empty is answered 404.
C18_ReadableWithoutPostsAnswered404 ==
    (/\ op.name \in {"load_data", "generate_post"}
     /\ NoStoredPosts(tweets_files[op.username]))
        => /\ op.invocations = 0
           /\ http.status >= 400
           /\ ~load_data_raises(tweets_files[op.username])
                => http.status = 404 /\ http.detail = ScrapeFirst(op.username)

(***************************************************************************)
(* Claims about saving and reading back a profile (Spec).                  *)
(***************************************************************************)
\* C19: save then get round-trips. A get_user_info(u) that follows a save_user_info(u,
\* info) which returned success true returns success true with user_info equal to the
\* merged profile that save returned, so with every key of info at its saved value, and
\* is answered 200; whenever a get succeeds, its user_info is the merged profile of the
\* latest successful save; for a user id that was never saved (no file), get_user_info
\* returns success false with an empty user_info and the endpoint answers 404.
C19_SaveThenGetRoundTrips ==
    /\ [][ (/\ op.name = "save_user_info" /\ result.success
            /\ op'.name = "get_user_info" /\ op'.user_id = op.user_id)
              => /\ result'.success
                 /\ result'.user_info = result.user_info
                 /\ \A k \in DOMAIN op.user_info : result'.user_info[k] = op.user_info[k]
                 /\ http'.status = 200 ]_vars
    /\ [](op.name = "get_user_info"
            => /\ result.success => result.user_info = last_saved[op.user_id]
               /\ user_info_files[op.user_id].kind = "absent"
                    => /\ ~result.success
                       /\ result.user_info = EmptyDict
                       /\ http.status = 404)

\* A profile saved in two steps, with a value that had to be escaped in the file, has
\* been read back.
C19_Witness ==
    /\ op.name = "get_user_info" /\ result.success
    /\ result.user_info = [location |-> Quoted, profession |-> "poet"]
    /\ user_info_files[op.user_id].content["location"] # Quoted

\* The posts a data file holds.
StoredPostsOf(file) == IF file.kind = "json" THEN file.content ELSE <<>>

\* C20: stored data is isolated per key. A scrape-profile for username A changes only
\* the stored posts and analysis of A, a save-user-info for user id U changes only the
\* profile of U, the stored posts, analysis and profiles of every other username and
\* user id are unchanged, and every post stored under A has user == A.
C20_StoredDataIsIsolatedPerKey ==
    /\ [](\A n \in Usernames :
             \A i \in 1..Len(StoredPostsOf(tweets_files[n])) :
                 StoredPostsOf(tweets_files[n])[i].user = n)
    /\ [][ /\ \A n \in Usernames :
                (tweets_files'[n] # tweets_files[n] \/ analysis_files'[n] # analysis_files[n])
                    => (op'.name = "scrape_profile" /\ op'.username = n)
           /\ \A u \in UserIds :
                user_info_files'[u] # user_info_files[u]
                    => (op'.name = "save_user_info" /\ op'.user_id = u) ]_vars

(***************************************************************************)
(* SpecInvoke: the calls that use the model, analyze_tweets on the posts   *)
(* of a scrape and generate_post behind its route, each with the number of *)
(* llm.invoke calls it makes.                                              *)
(***************************************************************************)
\* The number of llm.invoke calls of analyze_tweets with every raising invocation
\* issued a second time.
AnalyzeCallsRetrying(tweets, llm) ==
    IF tweets = <<>> THEN 0 ELSE IF llm = LlmRaises THEN 2 ELSE 1

\* The number of llm.invoke calls analyze_tweets makes: none without posts, else the one
\* of the analysis prompt.
AnalyzeCalls(tweets, llm) == IF tweets = <<>> THEN 0 ELSE 1

\* The posts handed to analyze_tweets.
AnalyzeLists ==
    { <<>>,
      <<BuildTweet(ElemA, 0, "nitter", "alice")>>,
      <<BuildTweet(ElemA, 1, "nitter", "alice"), BuildTweet(ElemC, 0, "nitter", "alice")>> }

\* analyze_tweets(username, tweets), the file written.
AnalyzeTweets(username, tweets, llm) ==
    LET r == analyze_tweets(username, tweets, llm)
    IN  /\ analysis_files' = [analysis_files EXCEPT ![username] =
                                 IF r.save THEN save_data(@, r.ret, "written") ELSE @]
        /\ op' = [name |-> "analyze_tweets", username |-> username, tweets |-> tweets,
                  llm |-> llm, invocations |-> AnalyzeCalls(tweets, llm)]
        /\ result' = r.ret
        /\ http' = NoAnswer
        /\ UNCHANGED <<user_info_files, tweets_files, last_saved, scrape, visits,
                       parse_in, parse_out, dedup_in, dedup_out, requests, last_scraped>>

NextInvoke ==
    \/ \E tweets \in AnalyzeLists, llm \in AnalysisResponses :
          AnalyzeTweets("alice", tweets, llm)
    \/ \E name \in RouteNames, length \in Lengths, llm \in LlmBehaviours :
          GeneratePostRoute(name, length, NoUserId, llm)

SpecInvoke == InitGenerate /\ [][NextInvoke]_vars

\* No invocation of the model is issued again after it raised: the call ends there,
\* without success.
RaiseEndsCall ==
    /\ (op.name = "analyze_tweets" /\ op.tweets # <<>> /\ op.llm = LlmRaises)
          => result.success = JsonFalse
    /\ (op.name = "generate_post" /\ op.llm.raises_at \in 1..4)
          => (~result.success /\ op.invocations = op.llm.raises_at)

\* C21 as stated: one analyze_tweets call and one generate_post call each issue a
\* single model invocation, and an invocation that raises is never re-issued: the
\* operation ends with a non-success or fallback result.
C21_SingleInvocationPerCall ==
    /\ op.name \in {"analyze_tweets", "generate_post"} => op.invocations <= 1
    /\ RaiseEndsCall

\* C21 amended: analyze_tweets issues one invocation (none without posts);
\* generate_post on stored posts issues one invocation for each of its four prompts
\* (tone, trending context, hashtags, final post) up to the first that raises; no
\* prompt is invoked twice, and an invocation that raises ends the call without success.
C21_OneInvocationPerPrompt ==
    /\ op.name = "analyze_tweets"
          => op.invocations = (IF op.tweets = <<>> THEN 0 ELSE 1)
    /\ op.name = "generate_post"
          => /\ op.invocations \in 1..4
             /\ op.llm.raises_at = 0 => op.invocations = 4
    /\ RaiseEndsCall

\* A generate_post whose third invocation raised, after an analysis whose invocation
\* raised has left the stored analysis as it was.
C21_Witness ==
    /\ op.name = "generate_post" /\ op.llm.raises_at = 3
    /\ op.invocations = 3 /\ ~result.success

(***************************************************************************)
(* SpecKey: /scrape-profile and /generate-post/{username} on the same      *)
(* username strings, every write going through.                            *)
(***************************************************************************)
\* The files a username string of the model can name.
KeyFiles == Usernames \cup {"@alice"}

\* For every username string, the lists its scrape can return.
KeyListsOf == [n \in RouteNames |-> StoreLists(n)]

KeyBehaviours ==
    { [raises_at |-> 0, hashtags |-> <<PROSE>>, final |-> <<LBRACE, RBRACE>>],
      [raises_at |-> 4, hashtags |-> <<PROSE>>, final |-> <<PROSE>>] }

InitKey ==
    /\ user_info_files = [u \in UserIds |-> NoFile]
    /\ last_saved = [u \in UserIds |-> EmptyDict]
    /\ tweets_files = [n \in KeyFiles |-> NoFile]
    /\ \E bobs \in {NoFile, Unreadable} :
          analysis_files = [n \in KeyFiles |-> IF n = "bob" THEN bobs ELSE NoFile]
    /\ op = NoOp /\ result = <<>> /\ http = NoAnswer
    /\ scrape = NoScrape /\ visits = NoVisits
    /\ parse_in = <<>> /\ parse_out = NotParsed
    /\ dedup_in = <<>> /\ dedup_out = NotRun
    /\ requests = NoRequests
    /\ last_scraped = [n \in RouteNames |-> NeverScraped]

NextKey ==
    \/ \E username \in RouteNames, llm \in StoreResponses :
          \E tweets \in KeyListsOf[username] :
              ScrapeProfileRoute(username, tweets, llm, "written", "written")
    \/ \E username \in RouteNames : ScrapeProfileRaises(username)
    \/ \E name \in RouteNames, llm \in KeyBehaviours :
          GeneratePostRoute(name, "Medium", NoUserId, llm)

SpecKey == InitKey /\ [][NextKey]_vars

\* C22: scrape and generate agree on the storage key. A /generate-post/{u} request that
\* follows a /scrape-profile request for the same username string u which returned
\* success finds the posts stored by that scrape and is not answered with 404, also for
\* a username written with a leading or trailing '@'. (load_data is the operation that
\* returned last when the route found no posts; op.path is the username of the path.)
C22_GenerateFindsPostsOfScrape ==
    [][ (/\ op.name = "scrape_profile" /\ result.success
         /\ op'.name = "load_data" /\ op'.path = op.username)
           => http'.status # 404 ]_vars

(***************************************************************************)
(* Claims about what a scrape leaves in the files (SpecStore, SpecScrape). *)
(***************************************************************************)
\* C23: scrape_profile returns success true only if the posts it reports have been
\* persisted: whenever the result has success true, load_data(username, "tweets")
\* returns the top posts of that scrape (the list the result reports under tweets,
\* which holds all of them while there are at most ten), also when writing failed.
C23_SuccessMeansPersisted ==
    (op.name = "scrape_profile" /\ result.success /\ result.top_tweets_count <= 10)
        => /\ ~load_data_raises(tweets_files[DataFileOf(op.username)])
           /\ load_tweets_data(tweets_files[DataFileOf(op.username)]) = result.tweets

\* C24: stored posts and stored analysis stay consistent. After a scrape-profile that
\* returned success, whenever both posts and analysis are stored for its username, the
\* stored analysis is the performance_analysis returned by that scrape, the one computed
\* from the posts it stored, also when the model invocation of its analysis failed.
C24_StoredAnalysisIsOfStoredPosts ==
    (/\ op.name = "scrape_profile" /\ result.success
     /\ tweets_files[DataFileOf(op.username)].kind = "json"
     /\ analysis_files[DataFileOf(op.username)].kind = "json")
        => /\ tweets_files[DataFileOf(op.username)].content
                = SortByScore(deduplicate_tweets(last_scraped[op.username].tweets))
           /\ analysis_files[DataFileOf(op.username)].content = result.performance_analysis

\* C25: a scrape_profile call that returns success false (no posts collected, or an
\* exception during scraping) leaves the stored posts and the stored analysis of its
\* username, and of every other username, as they were before the call.
C25_FailedScrapeLeavesFiles ==
    [][ (op'.name = "scrape_profile" /\ ~result'.success)
           => (tweets_files' = tweets_files /\ analysis_files' = analysis_files) ]_vars

\* A scrape of a username whose posts and analysis are stored has failed.
C25_Witness ==
    /\ op.name = "scrape_profile" /\ ~result.success
    /\ result.message = "No tweets found"
    /\ tweets_files[DataFileOf(op.username)].kind = "json"
    /\ Len(tweets_files[DataFileOf(op.username)].content) = 2
    /\ analysis_files[DataFileOf(op.username)].kind = "json"

(***************************************************************************)
(* Claims about what generation and reading leave in the files             *)
(* (SpecGenerate).                                                         *)
(***************************************************************************)
\* C26: generate_post and get_user_info are read-only. The stored posts, the stored
\* analysis and the stored profiles are the same before and after a /generate-post or
\* /get-user-info request, whether it succeeds or fails.
C26_GenerateAndGetAreReadOnly ==
    [][ op'.name \in {"generate_post", "load_data", "get_user_info"}
           => /\ tweets_files' = tweets_files
              /\ analysis_files' = analysis_files
              /\ user_info_files' = user_info_files ]_vars

\* A post has been generated for alice with the profile of u1, and a later read of a
\* missing profile failed: the files of the scrape and the profile are as they were.
C26_Witness ==
    /\ op.name = "generate_post" /\ result.success /\ op.user_id = "u1"
    /\ tweets_files["alice"] = JsonFile(StoredTweets)
    /\ analysis_files["alice"] = JsonFile(fallback_analysis)
    /\ user_info_files["u1"] = JsonFile(json_dump([location |-> "india"]))

(***************************************************************************)
(* Claims about the shape of the final answer (SpecGenerate).              *)
(***************************************************************************)
\* The final answer parses as JSON and what it holds is an array.
ParsesAsArray(final) == ~NoParseableJson(final) /\ IsList(parse_json_from_response(final))

\* C27: generate_post returns success true with post, hashtags, best_time,
\* viral_elements, engagement_prediction and estimated_metrics present whenever the
\* final answer of the model parses as JSON, whatever its top-level shape. Stated here
\* for the shapes other than the plain object: a one-element array wrapping the object
\* (which is unwrapped), or an array of several elements such as the parts of a thread.
C27_ArrayAnswerYieldsPost ==
    (op.name = "generate_post" /\ op.llm.raises_at = 0 /\ ParsesAsArray(op.llm.final))
        => /\ result.success
           /\ PostFields \cup {"estimated_metrics"} \subseteq DOMAIN result

(***************************************************************************)
(* Claims about a failed save of a profile (Spec).                         *)
(***************************************************************************)
\* C28: when save_user_info returns success false (the existing file is no valid JSON,
\* or the write fails), the stored profile of that user id is what it was before the
\* call: no key is added, changed or lost and the file is not truncated.
C28_FailedSaveLeavesProfile ==
    [][ (op'.name = "save_user_info" /\ ~result'.success)
           => user_info_files' = user_info_files ]_vars

(***************************************************************************)
(* Claims about the result of a successful scrape (SpecScrape).            *)
(***************************************************************************)
\* The normalized texts of a list of posts.
DistinctTexts(tweets) == {NormalizedText(tweets[i]) : i \in 1..Len(tweets)} \ {<<>>}

\* The list is in non-increasing engagement_score order.
ScoreOrdered(tweets) ==
    \A i \in 1..Len(tweets) - 1 : ScoreOf(tweets[i]) >= ScoreOf(tweets[i + 1])

\* The counts and lists of a scrape_profile result agree with the collected list and
\* with the list `posts` of top posts.
ResultConsistentWith(collected, posts, max_tweets) ==
    /\ result.tweet_count = Cardinality(DistinctTexts(collected))
    /\ result.top_tweets_count = Min(result.tweet_count, TopTweets)
    /\ Len(posts) = result.top_tweets_count
    /\ ScoreOrdered(posts)
    /\ result.tweets = Take(posts, 10)
    /\ result.sample_tweets = Take(posts, 5)
    /\ IsPrefix(result.sample_tweets, result.tweets)
    /\ result.tweet_count <= max_tweets

\* C29: every successful scrape_profile result is internally consistent: tweet_count is
\* the number of distinct posts collected, top_tweets_count == min(tweet_count, 30), the
\* stored posts are in non-increasing engagement_score order, tweets is the first 10
\* and sample_tweets the first 5 of the stored posts, and tweet_count never exceeds the
\* requested maximum of posts.
C29_ResultAgreesWithStoredPosts ==
    (op.name = "scrape_profile" /\ result.success)
        => ResultConsistentWith(scrape.tweets, load_tweets_data(tweets_files[op.username]),
                                op.max_tweets)

(***************************************************************************)
(* Claims about the hashtags of a generated post (SpecGenerate).           *)
(***************************************************************************)
\* The entries of a list of strings.
HashtagEntries(hashtags) == SelectSeq(hashtags, LAMBDA t : t \notin {LBRACK, RBRACK, COMMA})

\* The strings of the model that are non-empty, lower case and hold neither '#' nor
\* whitespace: those among the strings of the answers, and the characters of a string
\* other than '#' and whitespace.
HashtagShaped ==
    {"\"s\"", "\"questions\"", "\"ai\"", "\"ai_tools\"", "\"aitools\"", "\"high\"",
     "\"low\"", "\"medium\"", "\"viral\"", "\"**ship**it\"", "\"1/2a\"", "\"2/2b\"",
     "\"jsonparsingerror\"", "\"jsonparsingerror:...\"", "\"oneideaperpost\"",
     "\"shipit\"", "\"couldnotgeneratepost.\""}
    \cup (UNION {{HashtagsOfChars[t][i] : i \in 1..Len(HashtagsOfChars[t])} :
                    t \in DOMAIN HashtagsOfChars}
          \ {"\"\""})

\* C30: every entry of hashtags in a successful generate_post result is a non-empty
\* lower-case string without '#' and without whitespace, whatever hashtags the model
\* returned (entries such as "#" included).
C30_HashtagsAreWellFormed ==
    (op.name = "generate_post" /\ result.success)
        => /\ IsList(result.hashtags)
           /\ \A i \in 1..Len(HashtagEntries(result.hashtags)) :
                HashtagEntries(result.hashtags)[i] \in HashtagShaped

\* What holds of the code: every entry is a lower-case string without '#' and
\* without whitespace, possibly the empty string.
C30_HashtagsAreFormatted ==
    (op.name = "generate_post" /\ result.success)
        => /\ IsList(result.hashtags)
           /\ \A i \in 1..Len(HashtagEntries(result.hashtags)) :
                HashtagEntries(result.hashtags)[i] \in HashtagShaped \cup {"\"\""}

====
